---- MODULE Spec2Model ----
(***************************************************************************)
(* Body lowering of capy (crates/hir/src/body.rs): the lowering context    *)
(* `Ctx` walking one file's syntax tree.  The recursive descent of         *)
(* `lower_global` / `lower_expr` / `lower_block` / ... is unfolded into a  *)
(* call stack of activation frames; the syntax tree is not stored but      *)
(* chosen node by node, so every tree within the bounds is lowered.        *)
(*                                                                         *)
(* Input restrictions (all are trees the parser can produce):              *)
(*   - `if` has no else branch and its condition is absent;                *)
(*   - `while`/`loop` has no condition and its body is a block;            *)
(*   - blocks have no tail expression, break/return carry no value;        *)
(*   - globals and params have no type annotation, lambdas no return type  *)
(*     and no `extern`.                                                    *)
(* Payloads of arena entries that no resolution step reads (child          *)
(* indices, ranges) are left out.                                          *)
(***************************************************************************)
EXTENDS Integers, Sequences, FiniteSets, TLC

\* ---------------------------------------------------------------- bounds
MaxNodes == 6
MaxDepth == 4
MaxParams == 1
\* digits (and separators) of the short literals
MaxDigits == 2
\* components of a char literal, and characters of one run of them
MaxComponents == 2
MaxChars == 2
\* items of an array literal
MaxItems == 2
\* definitions at the root of a file
MaxDefs == 3

\* comptime blocks of one file
MaxComptimes == 2

\* nesting of pointer and distinct types, and distinct types declared
MaxTyDepth == 2
MaxUids == 2

\* locals of an emitted function, and loads one execution of it is followed for
MaxLocals == 2

MaxTrace == 4

\* entries of tys_to_compile up to which type ids are asked for
MaxTys == 3

\* identifiers of the file; "i32" is the one that is also a primitive type
Names == {"x", "i32"}
\* label names; NoName is an absent label (Option::None)
LabelNames == {"a"}
NoName == "none"
\* Option::None of a ScopeId / Idx<LocalDef> / param index
NoId == 0 - 1

\* PrimitiveTy::parse on a VarRef: does the identifier name a primitive type
PrimitiveNames == {"i32"}
IsPrimitive(n) == n \in PrimitiveNames

VARIABLES
    index,          \* Index.definitions key set (input of `lower`)
    pc,             \* "running" | "panicked"
    stack,          \* call stack of the lowerer, innermost frame last
    label_kinds,    \* Ctx.label_kinds
    label_gen,      \* Ctx.label_gen (next id)
    scopes,         \* Ctx.scopes
    params,         \* Ctx.params
    diagnostics,    \* Ctx.diagnostics
    exprs,          \* Bodies.exprs
    stmts,          \* Bodies.stmts
    local_defs,     \* Bodies.local_defs
    global_bodies,  \* Bodies.global_bodies
    label_decls,    \* Bodies.label_decls
    label_usages,   \* Bodies.label_usages
    def_block,      \* history: block activation in which each local was defined
    nblocks,        \* history: number of block activations so far
    last,           \* history: the node lowered by the last step
    imports,        \* Bodies.imports
    fake_file_system, \* Ctx.fake_file_system
    definitions,    \* index.rs: Index.definitions
    range_info,     \* index.rs: Index.range_info
    indexing_diagnostics, \* index.rs: Ctx.diagnostics
    ndefs,          \* index.rs: definitions of the root visited so far
    mode,           \* main.rs: "file" (a file argument) or "repl"
    driver_pc,      \* main.rs: position in main / eval
    phase_out,      \* main.rs: diagnostics each phase run so far returned
    driver_diagnostics, \* main.rs: `diagnostics` of eval, as displayed
    backend_calls,  \* main.rs: calls of codegen::compile by this eval
    exit_status,    \* main.rs: status the process exited with (NoId: running)
    bodies_map,     \* functions.rs: FunctionCompiler.bodies_map (per file)
    comptime_results, \* functions.rs: keys of FunctionCompiler.comptime_results
    fc_file_name,   \* functions.rs: FunctionCompiler.file_name (NoName: none)
    globals,        \* functions.rs: keys of FunctionCompiler.globals
    codegen_last,   \* history: the last expression codegen compiled
    ty_self,        \* ty.rs: `self` of Ty::max
    ty_other,       \* ty.rs: `other` of Ty::max
    max_ty,         \* ty.rs: what Ty::max returned
    ty_pc,          \* ty.rs: "idle" | "operands" | "max" | "fit" | "perform"
    ty_op,          \* ty.rs: `self` of can_perform (NoName: none)
    ty_ok,          \* ty.rs: what can_fit_into / can_perform returned
    fn_body,        \* functions.rs: `function_body` of finish (hir expression)
    locals_mem,     \* the bool each local of the function holds in memory
    blocks,         \* functions.rs: the blocks of FunctionCompiler.builder
    exits,          \* functions.rs: FunctionCompiler.exits
    continues,      \* functions.rs: FunctionCompiler.continues
    run,            \* an execution of the emitted function
    root_defs,      \* body.rs / index.rs: root.defs of the file (one for both)
    nlowered,       \* body.rs: definitions of the root `lower` has visited
    body_def,       \* history: the definition each global body was lowered from
    meta_ty_data,   \* convert.rs: the MetaTyData passed to to_type_id
    pointer_bits,   \* convert.rs: pointer_ty.bits()
    type_ids,       \* history: the id to_type_id first returned for a type
    convert_pc      \* convert.rs: "idle" | "ready"

\* the indexer (crates/hir/src/index.rs)
indexVars == <<definitions, range_info, indexing_diagnostics, ndefs>>

\* the driver (crates/capy/src/main.rs)
driverVars == <<mode, driver_pc, phase_out, driver_diagnostics,
                backend_calls, exit_status>>

\* the function compiler (crates/codegen/src/compiler/functions.rs)
codegenVars == <<bodies_map, comptime_results, fc_file_name, globals,
                 codegen_last>>

\* the type lattice (crates/hir_ty/src/ty.rs)
tyVars == <<ty_self, ty_other, max_ty, ty_pc, ty_op, ty_ok>>

\* the control flow the function compiler emits, and an execution of it
flowVars == <<fn_body, locals_mem, blocks, exits, continues, run>>

\* the type ids of convert.rs
convertVars == <<meta_ty_data, pointer_bits, type_ids, convert_pc>>

\* the Cranelift side of the function compiler
clifVars == <<flowVars, convertVars>>

\* the backend and the type lattice
backendVars == <<codegenVars, tyVars, clifVars>>

\* the root of the file `index` and `lower` are both given
rootVars == <<root_defs, nlowered, body_def>>

\* state outside the lowering of names, scopes and labels
extVars == <<imports, fake_file_system, indexVars, driverVars, backendVars,
             rootVars>>

\* the lowering context without the history of the last step
lowerVars == <<index, pc, stack, label_kinds, label_gen, scopes, params,
               diagnostics, exprs, stmts, local_defs, global_bodies,
               label_decls, label_usages, def_block, nblocks,
               imports, fake_file_system, rootVars>>

vars == <<index, pc, stack, label_kinds, label_gen, scopes, params,
          diagnostics, exprs, stmts, local_defs, global_bodies,
          label_decls, label_usages, def_block, nblocks, last, extVars>>

\* ------------------------------------------------------------ data shapes
EmptyMap == [n \in Names |-> NoId]

ScopeKind(kind, name, id) == [kind |-> kind, name |-> name, id |-> id]

Diag(kind, name) == [kind |-> kind, name |-> name]

\* an arena expression: its variant, a numeric payload and a name payload
Expr(kind, v, n) == [kind |-> kind, v |-> v, n |-> n]

Stmt(kind, label) == [kind |-> kind, label |-> label]

Frame(kind, phase) ==
    [kind |-> kind, phase |-> phase, sid |-> NoId, lname |-> NoName,
     name |-> NoName, old_labels |-> <<>>, old_params |-> EmptyMap,
     old_scopes |-> <<>>, fparams |-> <<>>, bid |-> NoId, depth0 |-> 0]

LastNone ==
    [op |-> "none", name |-> NoName, label |-> NoId, result |-> Expr("None", NoId, NoName),
     added |-> <<>>, encl |-> <<>>, enclFn |-> <<>>, expLocal |-> NoId,
     ownParams |-> <<>>, inBody |-> FALSE, outer |-> FALSE, d0 |-> 0, d1 |-> 0]

Top == stack[Len(stack)]

Pop(s) == SubSeq(s, 1, Len(s) - 1)

\* frames whose body is a statement list
BlockKinds == {"block", "whilebody", "ifbody"}
\* frames waiting for exactly one expression
AwaitKinds == {"global", "lambda", "comptime", "define"}

\* ------------------------------------------------ history of the call stack
Max(S) == CHOOSE m \in S : \A k \in S : k <= m

RECURSIVE LastIdx(_, _)
\* position of the innermost frame whose kind is in K, 0 when there is none
LastIdx(s, K) ==
    IF Len(s) = 0 THEN 0
    ELSE IF s[Len(s)].kind \in K THEN Len(s)
    ELSE LastIdx(Pop(s), K)

\* the labellable scopes whose lowering is in progress, outermost first
ScopesOf(s) ==
    LET f == SelectSeq(s, LAMBDA fr : fr.sid # NoId)
    IN [i \in 1..Len(f) |->
          ScopeKind(IF f[i].kind = "block" THEN "Block" ELSE "Loop",
                    f[i].lname, f[i].sid)]

Encl == ScopesOf(stack)

EnclFn == ScopesOf(SubSeq(stack, LastIdx(stack, {"lambda"}) + 1, Len(stack)))

\* innermost enclosing lambda or comptime activation (0: none)
BodyStart == LastIdx(stack, {"lambda", "comptime"})

OwnBlocks ==
    {stack[i].bid : i \in {j \in (BodyStart + 1)..Len(stack) :
                              stack[j].kind \in BlockKinds}}

\* the local a reference to n denotes by lexical scoping (NoId: none)
ExpectedLocal(n) ==
    LET c == {d \in 1..Len(local_defs) :
                local_defs[d].name = n /\ def_block[d] \in OwnBlocks}
    IN IF c = {} THEN NoId ELSE Max(c) - 1

OwnParams ==
    IF BodyStart > 0 /\ stack[BodyStart].kind = "lambda"
    THEN stack[BodyStart].fparams ELSE <<>>

\* n names a local or a parameter of a function around the innermost
\* lambda/comptime body
OuterHas(n) ==
    \/ \E d \in 1..Len(local_defs) :
          /\ local_defs[d].name = n
          /\ \E i \in 1..BodyStart : stack[i].bid = def_block[d]
    \/ \E i \in 1..(BodyStart - 1) :
          /\ stack[i].kind = "lambda"
          /\ \E k \in 1..Len(stack[i].fparams) : stack[i].fparams[k] = n

\* ------------------------------------------------------- Ctx helper methods
RECURSIVE look_up_in_current_scope(_, _)
look_up_in_current_scope(sc, name) ==
    IF Len(sc) = 0 THEN NoId
    ELSE IF sc[Len(sc)][name] # NoId THEN sc[Len(sc)][name]
    ELSE look_up_in_current_scope(Pop(sc), name)

look_up_param(ps, name) == ps[name]

insert_into_current_scope(sc, name, value) ==
    [sc EXCEPT ![Len(sc)] = [@ EXCEPT ![name] = value]]

create_new_child_scope(sc) == Append(sc, EmptyMap)

\* slip: the scope of a finished block stays on the stack
destroy_current_scope_kept(sc) == sc

destroy_current_scope(sc) == IF Len(sc) = 0 THEN sc ELSE Pop(sc)

\* param_keys of lower_lambda: a later parameter of the same name overwrites
param_keys(ps) ==
    [n \in Names |->
        LET c == {i \in 1..Len(ps) : ps[i] = n}
        IN IF c = {} THEN NoId ELSE Max(c) - 1]

\* slip: the Index is consulted before locals and parameters
lower_var_ref_global_first(sc, ps, ix, name) ==
    IF name \in ix
    THEN [expr |-> Expr("LocalGlobal", NoId, name), diags |-> <<>>]
    ELSE IF look_up_in_current_scope(sc, name) # NoId
    THEN [expr |-> Expr("Local", look_up_in_current_scope(sc, name), NoName),
          diags |-> <<>>]
    ELSE IF look_up_param(ps, name) # NoId
    THEN [expr |-> Expr("Param", look_up_param(ps, name), NoName), diags |-> <<>>]
    ELSE IF IsPrimitive(name)
    THEN [expr |-> Expr("PrimitiveTy", NoId, name), diags |-> <<>>]
    ELSE [expr |-> Expr("Missing", NoId, NoName),
          diags |-> <<Diag("UndefinedRef", name)>>]

lower_var_ref(sc, ps, ix, name) ==
    IF look_up_in_current_scope(sc, name) # NoId
    THEN [expr |-> Expr("Local", look_up_in_current_scope(sc, name), NoName),
          diags |-> <<>>]
    ELSE IF look_up_param(ps, name) # NoId
    THEN [expr |-> Expr("Param", look_up_param(ps, name), NoName), diags |-> <<>>]
    ELSE IF name \in ix
    THEN [expr |-> Expr("LocalGlobal", NoId, name), diags |-> <<>>]
    ELSE IF IsPrimitive(name)
    THEN [expr |-> Expr("PrimitiveTy", NoId, name), diags |-> <<>>]
    ELSE [expr |-> Expr("Missing", NoId, NoName),
          diags |-> <<Diag("UndefinedRef", name)>>]

RECURSIVE find_named(_, _)
\* innermost entry of label_kinds carrying the name (0: none)
find_named(lk, name) ==
    IF Len(lk) = 0 THEN 0
    ELSE IF lk[Len(lk)].name = name THEN Len(lk)
    ELSE find_named(Pop(lk), name)

RECURSIVE find_unnamed(_, _)
\* innermost entry of label_kinds an unlabelled break/continue may take
find_unnamed(lk, require_loop) ==
    IF Len(lk) = 0 THEN 0
    ELSE IF lk[Len(lk)].kind = "Loop" \/ ~require_loop THEN Len(lk)
    ELSE find_unnamed(Pop(lk), require_loop)

Resolved(label, diags) == [label |-> label, diags |-> diags, panic |-> FALSE]

resolve_label(lk, label_name, require_loop) ==
    IF label_name # NoName
    THEN LET i == find_named(lk, label_name)
         IN IF i = 0
            THEN Resolved(NoId, <<Diag("UndefinedLabel", label_name)>>)
            ELSE IF lk[i].kind = "Block" /\ require_loop
            THEN Resolved(lk[i].id, <<Diag("ContinueNonLoop", label_name)>>)
            ELSE Resolved(lk[i].id, <<>>)
    ELSE LET i == find_unnamed(lk, require_loop)
         IN IF i # 0 THEN Resolved(lk[i].id, <<>>)
            ELSE IF require_loop
            THEN Resolved(NoId, <<Diag("ContinueNonLoop", NoName)>>)
            ELSE [label |-> NoId, diags |-> <<>>, panic |-> TRUE]

\* the label computed by lower_return: label_kinds.first()
return_label(lk) == IF Len(lk) = 0 THEN NoId ELSE lk[1].id

\* ---------------------------------------------------------------- indexing
\* Index and diagnostics as `index` creates them
IndexIdle ==
    /\ definitions = [n \in {} |-> 0]
    /\ range_info = [n \in {} |-> 0]
    /\ indexing_diagnostics = <<>>
    /\ ndefs = 0

\* ------------------------------------------------------------------ driver
\* the driver before main runs
DriverIdle ==
    /\ mode = "file"
    /\ driver_pc = "start"
    /\ phase_out = [p \in {} |-> <<>>]
    /\ driver_diagnostics = <<>>
    /\ backend_calls = 0
    /\ exit_status = NoId

\* ----------------------------------------------------------------- codegen
\* no function compiler exists
CodegenIdle ==
    /\ bodies_map = [f \in {} |-> 0]
    /\ comptime_results = {}
    /\ fc_file_name = NoName
    /\ globals = {}
    /\ codegen_last = [op |-> "none"]

\* no operation asks for a max
TyIdle ==
    /\ ty_self = [k |-> "Unknown"]
    /\ ty_other = [k |-> "Unknown"]
    /\ max_ty = [k |-> "None"]
    /\ ty_pc = "idle"
    /\ ty_op = NoName
    /\ ty_ok = FALSE

\* no function is being emitted
FlowIdle ==
    /\ fn_body = [k |-> "None"]
    /\ locals_mem = <<>>
    /\ blocks = <<>>
    /\ exits = <<>>
    /\ continues = <<>>
    /\ run = [pc |-> "idle"]

\* no type id has been asked for
ConvertIdle ==
    /\ meta_ty_data = [tys_to_compile |-> <<>>]
    /\ pointer_bits = 64
    /\ type_ids = [t \in {} |-> 0]
    /\ convert_pc = "idle"

ClifIdle == FlowIdle /\ ConvertIdle

\* the backend before it is handed anything
BackendIdle == CodegenIdle /\ TyIdle /\ ClifIdle

\* ---------------------------------------------------------------- lowering
\* the loop of `lower` over the definitions of a root has not been entered
RootIdle ==
    /\ root_defs = <<>>
    /\ nlowered = 0
    /\ body_def = [n \in {} |-> 0]

\* Ctx::new
CtxNew ==
    /\ pc = "running"
    /\ stack = <<>>
    /\ label_kinds = <<>>
    /\ label_gen = 0
    /\ scopes = <<EmptyMap>>
    /\ params = EmptyMap
    /\ diagnostics = <<>>
    /\ exprs = <<>>
    /\ stmts = <<>>
    /\ local_defs = <<>>
    /\ global_bodies = [n \in {} |-> 0]
    /\ label_decls = [i \in {} |-> 0]
    /\ label_usages = [i \in {} |-> <<>>]
    /\ def_block = <<>>
    /\ nblocks = 0
    /\ last = LastNone
    /\ imports = {}

CtxInit ==
    /\ index \in (SUBSET Names) \ {{}}
    /\ RootIdle
    /\ pc = "running"
    /\ stack = <<>>
    /\ label_kinds = <<>>
    /\ label_gen = 0
    /\ scopes = <<EmptyMap>>
    /\ params = EmptyMap
    /\ diagnostics = <<>>
    /\ exprs = <<>>
    /\ stmts = <<>>
    /\ local_defs = <<>>
    /\ global_bodies = [n \in {} |-> 0]
    /\ label_decls = [i \in {} |-> 0]
    /\ label_usages = [i \in {} |-> <<>>]
    /\ def_block = <<>>
    /\ nblocks = 0
    /\ last = LastNone
    /\ imports = {}

\* lowering of one file with the fake file system
Init ==
    /\ CtxInit
    /\ fake_file_system = TRUE
    /\ IndexIdle
    /\ DriverIdle
    /\ BackendIdle

\* room for one more syntax node / one more nested activation
HasRoom == Len(exprs) + Len(stmts) + Len(stack) < MaxNodes

CanNest == Len(stack) < MaxDepth

\* the lowerer is at a position where an expression comes next
AtExpr ==
    /\ pc = "running"
    /\ Len(stack) > 0
    /\ \/ Top.kind \in BlockKinds
       \/ Top.kind \in AwaitKinds /\ Top.phase = "await"
    /\ HasRoom

\* the lowerer is at a position where a statement comes next
AtStmt ==
    /\ pc = "running"
    /\ Len(stack) > 0
    /\ Top.kind \in BlockKinds
    /\ HasRoom

\* an expression was lowered and allocated: what its caller (frame s[Len(s)])
\* does with it.  In a statement list it becomes Stmt::Expr (lower_stmt and
\* the allocation in lower_block); elsewhere the caller can now finish.
ReturnTo(s) ==
    IF s[Len(s)].kind \in BlockKinds THEN s
    ELSE [s EXCEPT ![Len(s)].phase = "ready"]

StmtsAfterExpr(s, st) ==
    IF s[Len(s)].kind \in BlockKinds THEN Append(st, Stmt("Expr", NoId)) ELSE st

\* the check of lower_expr after lower_expr_raw returned Some(scope_id)
decl_label(decls, usages, scope_id, id) ==
    IF scope_id \in DOMAIN usages
    THEN [k \in DOMAIN decls \cup {scope_id} |->
            IF k = scope_id THEN id ELSE decls[k]]
    ELSE decls

\* label_usages.entry(label_id).or_default().push(stmt_id) in lower_block
use_label(usages, label_id, stmt_id) ==
    IF label_id = NoId THEN usages
    ELSE [k \in DOMAIN usages \cup {label_id} |->
            IF k # label_id THEN usages[k]
            ELSE IF k \in DOMAIN usages THEN Append(usages[k], stmt_id)
            ELSE <<stmt_id>>]

lower_global(name) ==
    /\ pc = "running"
    /\ stack = <<>>
    /\ name \in index
    /\ HasRoom
    /\ IF name \in DOMAIN global_bodies
       THEN /\ last' = [LastNone EXCEPT !.op = "global_skipped", !.name = name]
            /\ UNCHANGED stack
       ELSE /\ stack' = <<[Frame("global", "await") EXCEPT !.name = name]>>
            /\ last' = [LastNone EXCEPT !.op = "global", !.name = name]
    /\ UNCHANGED extVars
    /\ UNCHANGED <<index, pc, label_kinds, label_gen, scopes, params,
                   diagnostics, exprs, stmts, local_defs, global_bodies,
                   label_decls, label_usages, def_block, nblocks>>

finish_global ==
    /\ pc = "running"
    /\ Len(stack) > 0
    /\ Top.kind = "global" /\ Top.phase = "ready"
    /\ global_bodies' = [n \in DOMAIN global_bodies \cup {Top.name} |->
                           IF n = Top.name THEN Len(exprs) - 1
                           ELSE global_bodies[n]]
    /\ stack' = Pop(stack)
    /\ last' = [LastNone EXCEPT !.op = "global_done", !.name = Top.name]
    /\ UNCHANGED extVars
    /\ UNCHANGED <<index, pc, label_kinds, label_gen, scopes, params,
                   diagnostics, exprs, stmts, local_defs,
                   label_decls, label_usages, def_block, nblocks>>

\* lower_expr(None)
lower_missing ==
    /\ AtExpr
    /\ Top.kind \in AwaitKinds
    /\ exprs' = Append(exprs, Expr("Missing", NoId, NoName))
    /\ stack' = ReturnTo(stack)
    /\ last' = [LastNone EXCEPT !.op = "missing"]
    /\ UNCHANGED extVars
    /\ UNCHANGED <<index, pc, label_kinds, label_gen, scopes, params,
                   diagnostics, stmts, local_defs, global_bodies,
                   label_decls, label_usages, def_block, nblocks>>

\* lower_block(block, true), up to the statement loop
lower_block(lname) ==
    /\ AtExpr /\ CanNest
    /\ label_kinds' = Append(label_kinds, ScopeKind("Block", lname, label_gen))
    /\ label_gen' = label_gen + 1
    /\ scopes' = create_new_child_scope(scopes)
    /\ stack' = Append(stack, [Frame("block", "stmts") EXCEPT
                                 !.sid = label_gen, !.lname = lname,
                                 !.bid = nblocks, !.depth0 = Len(scopes)])
    /\ nblocks' = nblocks + 1
    /\ last' = [LastNone EXCEPT !.op = "block", !.label = label_gen]
    /\ UNCHANGED extVars
    /\ UNCHANGED <<index, pc, params, diagnostics, exprs, stmts, local_defs,
                   global_bodies, label_decls, label_usages, def_block>>

\* lower_block after the statement loop, and lower_expr allocating the block
close_block ==
    /\ pc = "running"
    /\ Len(stack) > 0
    /\ Top.kind = "block"
    /\ scopes' = destroy_current_scope(scopes)
    /\ exprs' = Append(exprs, Expr("Block", NoId, NoName))
    /\ label_decls' = decl_label(label_decls, label_usages, Top.sid, Len(exprs))
    /\ stack' = ReturnTo(Pop(stack))
    /\ stmts' = StmtsAfterExpr(Pop(stack), stmts)
    /\ last' = [LastNone EXCEPT !.op = "close", !.label = Top.sid,
                                !.d0 = Top.depth0, !.d1 = Len(scopes')]
    /\ UNCHANGED extVars
    /\ UNCHANGED <<index, pc, label_kinds, label_gen, params, diagnostics,
                   local_defs, global_bodies, label_usages, def_block, nblocks>>

\* lower_while up to the statement loop of its body (lower_block(body, false))
lower_while(lname) ==
    /\ AtExpr /\ CanNest
    /\ label_kinds' = Append(label_kinds, ScopeKind("Loop", lname, label_gen))
    /\ label_gen' = label_gen + 1
    /\ scopes' = create_new_child_scope(scopes)
    /\ stack' = Append(stack, [Frame("whilebody", "stmts") EXCEPT
                                 !.sid = label_gen, !.lname = lname,
                                 !.bid = nblocks, !.depth0 = Len(scopes)])
    /\ nblocks' = nblocks + 1
    /\ last' = [LastNone EXCEPT !.op = "while", !.label = label_gen]
    /\ UNCHANGED extVars
    /\ UNCHANGED <<index, pc, params, diagnostics, exprs, stmts, local_defs,
                   global_bodies, label_decls, label_usages, def_block>>

\* end of the body block, lower_while allocating it, lower_expr allocating
\* the loop
close_while ==
    /\ pc = "running"
    /\ Len(stack) > 0
    /\ Top.kind = "whilebody"
    /\ scopes' = destroy_current_scope(scopes)
    /\ exprs' = exprs \o <<Expr("Block", NoId, NoName), Expr("While", NoId, NoName)>>
    /\ label_decls' = decl_label(label_decls, label_usages, Top.sid, Len(exprs) + 1)
    /\ stack' = ReturnTo(Pop(stack))
    /\ stmts' = StmtsAfterExpr(Pop(stack), stmts)
    /\ last' = [LastNone EXCEPT !.op = "close", !.label = Top.sid,
                                !.d0 = Top.depth0, !.d1 = Len(scopes')]
    /\ UNCHANGED extVars
    /\ UNCHANGED <<index, pc, label_kinds, label_gen, params, diagnostics,
                   local_defs, global_bodies, label_usages, def_block, nblocks>>

\* lower_if: the (absent) condition, then lower_block(body, false)
lower_if ==
    /\ AtExpr /\ CanNest
    /\ exprs' = Append(exprs, Expr("Missing", NoId, NoName))
    /\ scopes' = create_new_child_scope(scopes)
    /\ stack' = Append(stack, [Frame("ifbody", "stmts") EXCEPT
                                 !.bid = nblocks, !.depth0 = Len(scopes)])
    /\ nblocks' = nblocks + 1
    /\ last' = [LastNone EXCEPT !.op = "if"]
    /\ UNCHANGED extVars
    /\ UNCHANGED <<index, pc, label_kinds, label_gen, params, diagnostics,
                   stmts, local_defs, global_bodies, label_decls,
                   label_usages, def_block>>

close_if ==
    /\ pc = "running"
    /\ Len(stack) > 0
    /\ Top.kind = "ifbody"
    /\ scopes' = destroy_current_scope(scopes)
    /\ exprs' = exprs \o <<Expr("Block", NoId, NoName), Expr("If", NoId, NoName)>>
    /\ stack' = ReturnTo(Pop(stack))
    /\ stmts' = StmtsAfterExpr(Pop(stack), stmts)
    /\ last' = [LastNone EXCEPT !.op = "close",
                                !.d0 = Top.depth0, !.d1 = Len(scopes')]
    /\ UNCHANGED extVars
    /\ UNCHANGED <<index, pc, label_kinds, label_gen, params, diagnostics,
                   local_defs, global_bodies, label_decls, label_usages,
                   def_block, nblocks>>

RECURSIVE ParamLists(_)
\* the parameter lists of at most n parameters
ParamLists(n) ==
    IF n = 0 THEN {<<>>}
    ELSE ParamLists(n - 1) \cup
         {Append(ps, x) : ps \in {q \in ParamLists(n - 1) : Len(q) = n - 1},
                          x \in Names}

\* lower_lambda up to the lowering of the body
lower_lambda(ps) ==
    /\ AtExpr /\ CanNest
    /\ label_kinds' = <<>>
    /\ exprs' = exprs \o [i \in 1..Len(ps) |-> Expr("Missing", NoId, NoName)]
    /\ params' = param_keys(ps)
    /\ scopes' = <<>>
    /\ stack' = Append(stack, [Frame("lambda", "await") EXCEPT
                                 !.old_labels = label_kinds,
                                 !.old_params = params,
                                 !.old_scopes = scopes,
                                 !.fparams = ps])
    /\ last' = [LastNone EXCEPT !.op = "lambda"]
    /\ UNCHANGED extVars
    /\ UNCHANGED <<index, pc, label_gen, diagnostics, stmts, local_defs,
                   global_bodies, label_decls, label_usages, def_block, nblocks>>

\* slip: the label stack of the body is left in place
finish_lambda_keeping_labels ==
    /\ pc = "running"
    /\ Len(stack) > 0
    /\ Top.kind = "lambda" /\ Top.phase = "ready"
    /\ params' = Top.old_params
    /\ scopes' = Top.old_scopes
    /\ exprs' = Append(exprs, Expr("Lambda", NoId, NoName))
    /\ stack' = ReturnTo(Pop(stack))
    /\ stmts' = StmtsAfterExpr(Pop(stack), stmts)
    /\ last' = [LastNone EXCEPT !.op = "lambda_done"]
    /\ UNCHANGED extVars
    /\ UNCHANGED <<index, pc, label_kinds, label_gen, diagnostics, local_defs,
                   global_bodies, label_decls, label_usages, def_block, nblocks>>

\* lower_lambda after the body, and the allocation of Expr::Lambda
finish_lambda ==
    /\ pc = "running"
    /\ Len(stack) > 0
    /\ Top.kind = "lambda" /\ Top.phase = "ready"
    /\ params' = Top.old_params
    /\ scopes' = Top.old_scopes
    /\ label_kinds' = Top.old_labels
    /\ exprs' = Append(exprs, Expr("Lambda", NoId, NoName))
    /\ stack' = ReturnTo(Pop(stack))
    /\ stmts' = StmtsAfterExpr(Pop(stack), stmts)
    /\ last' = [LastNone EXCEPT !.op = "lambda_done"]
    /\ UNCHANGED extVars
    /\ UNCHANGED <<index, pc, label_gen, diagnostics, local_defs,
                   global_bodies, label_decls, label_usages, def_block, nblocks>>

\* slip: the comptime body is lowered with the enclosing params and scopes
lower_comptime_capturing ==
    /\ AtExpr /\ CanNest
    /\ stack' = Append(stack, [Frame("comptime", "await") EXCEPT
                                 !.old_params = params,
                                 !.old_scopes = scopes])
    /\ last' = [LastNone EXCEPT !.op = "comptime"]
    /\ UNCHANGED extVars
    /\ UNCHANGED <<index, pc, label_kinds, label_gen, scopes, params,
                   diagnostics, exprs, stmts, local_defs, global_bodies,
                   label_decls, label_usages, def_block, nblocks>>

\* lower_comptime up to the lowering of the body
lower_comptime ==
    /\ AtExpr /\ CanNest
    /\ params' = EmptyMap
    /\ scopes' = <<>>
    /\ stack' = Append(stack, [Frame("comptime", "await") EXCEPT
                                 !.old_params = params,
                                 !.old_scopes = scopes])
    /\ last' = [LastNone EXCEPT !.op = "comptime"]
    /\ UNCHANGED extVars
    /\ UNCHANGED <<index, pc, label_kinds, label_gen, diagnostics, exprs,
                   stmts, local_defs, global_bodies, label_decls,
                   label_usages, def_block, nblocks>>

finish_comptime ==
    /\ pc = "running"
    /\ Len(stack) > 0
    /\ Top.kind = "comptime" /\ Top.phase = "ready"
    /\ params' = Top.old_params
    /\ scopes' = Top.old_scopes
    /\ exprs' = Append(exprs, Expr("Comptime", NoId, NoName))
    /\ stack' = ReturnTo(Pop(stack))
    /\ stmts' = StmtsAfterExpr(Pop(stack), stmts)
    /\ last' = [LastNone EXCEPT !.op = "comptime_done"]
    /\ UNCHANGED extVars
    /\ UNCHANGED <<index, pc, label_kinds, label_gen, diagnostics,
                   local_defs, global_bodies, label_decls, label_usages,
                   def_block, nblocks>>

\* lower_var_ref, and lower_expr allocating the result
lower_ref(name) ==
    /\ AtExpr
    /\ LET r == lower_var_ref(scopes, params, index, name)
       IN /\ exprs' = Append(exprs, r.expr)
          /\ diagnostics' = diagnostics \o r.diags
          /\ last' = [LastNone EXCEPT !.op = "ref", !.name = name,
                         !.result = r.expr, !.added = r.diags,
                         !.expLocal = ExpectedLocal(name),
                         !.ownParams = OwnParams,
                         !.inBody = (BodyStart > 0),
                         !.outer = OuterHas(name)]
    /\ stack' = ReturnTo(stack)
    /\ stmts' = StmtsAfterExpr(stack, stmts)
    /\ UNCHANGED extVars
    /\ UNCHANGED <<index, pc, label_kinds, label_gen, scopes, params,
                   local_defs, global_bodies, label_decls, label_usages,
                   def_block, nblocks>>

\* lower_local_define up to the lowering of the value
lower_local_define(name) ==
    /\ AtStmt /\ CanNest
    /\ stack' = Append(stack, [Frame("define", "await") EXCEPT !.name = name])
    /\ last' = [LastNone EXCEPT !.op = "define", !.name = name]
    /\ UNCHANGED extVars
    /\ UNCHANGED <<index, pc, label_kinds, label_gen, scopes, params,
                   diagnostics, exprs, stmts, local_defs, global_bodies,
                   label_decls, label_usages, def_block, nblocks>>

\* lower_local_define after the value, and lower_block allocating the
\* statement
finish_define ==
    /\ pc = "running"
    /\ Len(stack) > 0
    /\ Top.kind = "define" /\ Top.phase = "ready"
    /\ local_defs' = Append(local_defs, [name |-> Top.name, value |-> Len(exprs) - 1])
    /\ def_block' = Append(def_block, stack[Len(stack) - 1].bid)
    /\ IF Len(scopes) = 0
       THEN pc' = "panicked" /\ UNCHANGED <<scopes, stmts>>
       ELSE /\ scopes' = insert_into_current_scope(scopes, Top.name, Len(local_defs))
            /\ stmts' = Append(stmts, Stmt("LocalDef", NoId))
            /\ pc' = pc
    /\ stack' = Pop(stack)
    /\ last' = [LastNone EXCEPT !.op = "define_done", !.name = Top.name]
    /\ UNCHANGED extVars
    /\ UNCHANGED <<index, label_kinds, label_gen, params, diagnostics, exprs,
                   global_bodies, label_decls, label_usages, nblocks>>

\* one iteration of the statement loop of lower_block on a statement that
\* lowered to Break or Continue with the resolution r
jump_stmt(op, lname, kind, r) ==
    IF r.panic
    THEN /\ pc' = "panicked"
         /\ last' = [LastNone EXCEPT !.op = "panic", !.name = lname]
         /\ UNCHANGED <<diagnostics, stmts, label_usages>>
    ELSE /\ pc' = pc
         /\ diagnostics' = diagnostics \o r.diags
         /\ stmts' = Append(stmts, Stmt(kind, r.label))
         /\ label_usages' = use_label(label_usages, r.label, Len(stmts))
         /\ last' = [LastNone EXCEPT !.op = op, !.name = lname,
                        !.label = r.label, !.added = r.diags,
                        !.encl = Encl, !.enclFn = EnclFn]

lower_break(lname) ==
    /\ AtStmt
    /\ jump_stmt("break", lname, "Break", resolve_label(label_kinds, lname, FALSE))
    /\ UNCHANGED extVars
    /\ UNCHANGED <<index, stack, label_kinds, label_gen, scopes, params, exprs,
                   local_defs, global_bodies, label_decls, def_block, nblocks>>

lower_continue(lname) ==
    /\ AtStmt
    /\ jump_stmt("continue", lname, "Continue", resolve_label(label_kinds, lname, TRUE))
    /\ UNCHANGED extVars
    /\ UNCHANGED <<index, stack, label_kinds, label_gen, scopes, params, exprs,
                   local_defs, global_bodies, label_decls, def_block, nblocks>>

lower_return ==
    /\ AtStmt
    /\ jump_stmt("return", NoName, "Break", Resolved(return_label(label_kinds), <<>>))
    /\ UNCHANGED extVars
    /\ UNCHANGED <<index, stack, label_kinds, label_gen, scopes, params, exprs,
                   local_defs, global_bodies, label_decls, def_block, nblocks>>

\* ------------------------------------------------------- literal lowering
\* Source text is a sequence of one-character strings.  A u64 / u32 value is
\* kept as its decimal digits (most significant first, no leading zero), so
\* that the range checks of `parse` and `checked_mul` are exact.
DigitChars == {"0", "1", "2", "3", "4", "5", "6", "7", "8", "9"}

DigitVal(c) ==
    CASE c = "0" -> 0 [] c = "1" -> 1 [] c = "2" -> 2 [] c = "3" -> 3
      [] c = "4" -> 4 [] c = "5" -> 5 [] c = "6" -> 6 [] c = "7" -> 7
      [] c = "8" -> 8 [] c = "9" -> 9

\* u8::MAX, u64::MAX and u32::MAX
U8_MAX == 255
U64_MAX == <<1, 8, 4, 4, 6, 7, 4, 4, 0, 7, 3, 7, 0, 9, 5, 5, 1, 6, 1, 5>>
U32_MAX == <<4, 2, 9, 4, 9, 6, 7, 2, 9, 5>>

RECURSIVE strip_zeros(_)
strip_zeros(d) ==
    IF Len(d) > 1 /\ d[1] = 0 THEN strip_zeros(Tail(d)) ELSE d

RECURSIVE lex_leq(_, _)
lex_leq(a, b) ==
    IF Len(a) = 0 THEN TRUE
    ELSE IF a[1] < b[1] THEN TRUE
    ELSE IF a[1] > b[1] THEN FALSE
    ELSE lex_leq(Tail(a), Tail(b))

\* a <= b for two values
dec_leq(a, b) == Len(a) < Len(b) \/ (Len(a) = Len(b) /\ lex_leq(a, b))

Zeros(n) == [i \in 1..n |-> 0]

\* str::parse into an unsigned integer type with the largest value max
parse_uint(txt, max) ==
    IF Len(txt) = 0 \/ \E i \in 1..Len(txt) : txt[i] \notin DigitChars
    THEN [ok |-> FALSE, val |-> <<>>]
    ELSE LET v == strip_zeros([i \in 1..Len(txt) |-> DigitVal(txt[i])])
         IN IF dec_leq(v, max) THEN [ok |-> TRUE, val |-> v]
            ELSE [ok |-> FALSE, val |-> <<>>]

\* the value e as a number, for e < 100; any larger e gives 100
Small(e) ==
    IF Len(e) > 2 THEN 100 ELSE IF Len(e) = 2 THEN 10 * e[1] + e[2] ELSE e[1]

\* 10_u64.checked_pow(e): 10^e is 1 followed by e zeros (10^100 stands for
\* every larger power, all of which overflow alike)
checked_pow10(e) ==
    LET p == <<1>> \o Zeros(Small(e))
    IN IF dec_leq(p, U64_MAX) THEN [ok |-> TRUE, val |-> p]
       ELSE [ok |-> FALSE, val |-> <<>>]

\* base.checked_mul(p) for p a power of ten
checked_mul(base, p) ==
    LET v == IF base = <<0>> THEN <<0>> ELSE base \o Tail(p)
    IN IF dec_leq(v, U64_MAX) THEN [ok |-> TRUE, val |-> v]
       ELSE [ok |-> FALSE, val |-> <<>>]

\* text.replace('_', "")
remove_underscores(txt) == SelectSeq(txt, LAMBDA c : c # "_")

\* positions of the separators of split(['e', 'E'])
SplitAt(txt) == {i \in 1..Len(txt) : txt[i] \in {"e", "E"}}

Min(S) == CHOOSE m \in S : \A k \in S : m <= k

\* the first and the second item of the split (none: there is no second)
split_first(txt) ==
    IF SplitAt(txt) = {} THEN txt ELSE SubSeq(txt, 1, Min(SplitAt(txt)) - 1)

split_second(txt) ==
    LET p == Min(SplitAt(txt))
        rest == SplitAt(txt) \ {p}
    IN [some |-> SplitAt(txt) # {},
        txt |-> IF SplitAt(txt) = {} THEN <<>>
                ELSE SubSeq(txt, p + 1,
                            IF rest = {} THEN Len(txt) ELSE Min(rest) - 1)]

Lowered(expr, diags) == [expr |-> expr, diags |-> diags]

OutOfRange ==
    Lowered(Expr("Missing", NoId, NoName), <<Diag("OutOfRangeIntLiteral", NoName)>>)

lower_int_literal(text) ==
    LET value == remove_underscores(text)
        base == parse_uint(split_first(value), U64_MAX)
        e == split_second(value)
    IN IF ~base.ok THEN OutOfRange
       ELSE IF e.some
       THEN LET ex == parse_uint(e.txt, U32_MAX)
                pw == IF ex.ok THEN checked_pow10(ex.val) ELSE ex
                result == IF pw.ok THEN checked_mul(base.val, pw.val) ELSE pw
            IN IF result.ok
               THEN Lowered(Expr("IntLiteral", result.val, NoName), <<>>)
               ELSE OutOfRange
       ELSE Lowered(Expr("IntLiteral", base.val, NoName), <<>>)

\* a leaf expression was lowered to r; lower_expr allocates it
leaf_expr(op, text, r) ==
    /\ exprs' = Append(exprs, r.expr)
    /\ diagnostics' = diagnostics \o r.diags
    /\ stack' = ReturnTo(stack)
    /\ stmts' = StmtsAfterExpr(stack, stmts)
    /\ last' = [op |-> op, text |-> text, result |-> r.expr, added |-> r.diags]
    /\ UNCHANGED <<index, pc, label_kinds, label_gen, scopes, params,
                   local_defs, global_bodies, label_decls, label_usages,
                   def_block, nblocks>>

\* lower_expr_raw on an integer literal whose text is one of `texts`
lower_int(texts) ==
    /\ AtExpr
    /\ \E text \in texts : leaf_expr("int", text, lower_int_literal(text))
    /\ UNCHANGED extVars

\* ---- char literals
\* A char is named by a string; CharCode is its Unicode scalar value.
CharCode(c) ==
    CASE c = "a" -> 97 [] c = "U+00E9" -> 233 [] c = "U+1F980" -> 129408

\* the character an escape sequence `\c` stands for (NoId: not an escape)
escape_char(c) ==
    CASE c = "0" -> 0 [] c = "a" -> 7 [] c = "b" -> 8 [] c = "n" -> 10
      [] c = "f" -> 12 [] c = "r" -> 13 [] c = "t" -> 9 [] c = "v" -> 11
      [] c = "e" -> 27 [] c = "'" -> 39 [] c = "\"" -> 34 [] c = "\\" -> 92
      [] OTHER -> NoId

Escape(c) == [esc |-> TRUE, ch |-> c, txt |-> <<>>]
Contents(t) == [esc |-> FALSE, ch |-> "", txt |-> t]

RECURSIVE char_components(_)
\* the loop over the components: text (as scalar values), total_len and the
\* diagnostics pushed
char_components(cs) ==
    IF Len(cs) = 0 THEN [text |-> <<>>, total_len |-> 0, diags |-> <<>>]
    ELSE LET r == char_components(Pop(cs))
             c == cs[Len(cs)]
         IN IF c.esc
            THEN IF escape_char(c.ch) # NoId
                 THEN [r EXCEPT !.total_len = @ + 1,
                                !.text = Append(@, escape_char(c.ch))]
                 ELSE [r EXCEPT !.total_len = @ + 1,
                                !.diags = Append(@, Diag("InvalidEscape", NoName))]
            ELSE [r EXCEPT !.total_len = @ + Len(c.txt),
                           !.text = @ \o [i \in 1..Len(c.txt) |-> CharCode(c.txt[i])]]

\* slip: the single character is only required to be a Unicode scalar value
char_to_u8_unchecked(ch) == [ok |-> TRUE, val |-> ch]

\* u8::try_from(char)
char_to_u8(ch) ==
    IF ch <= U8_MAX THEN [ok |-> TRUE, val |-> ch] ELSE [ok |-> FALSE, val |-> 0]

lower_char_literal(components) ==
    LET r == char_components(components)
        first == IF Len(r.text) = 0 THEN 0 ELSE r.text[1]
    IN IF r.total_len < 1
       THEN Lowered(Expr("CharLiteral", 0, NoName),
                    Append(r.diags, Diag("EmptyCharLiteral", NoName)))
       ELSE IF r.total_len = 1
       THEN IF char_to_u8(first).ok
            THEN Lowered(Expr("CharLiteral", char_to_u8(first).val, NoName), r.diags)
            ELSE Lowered(Expr("CharLiteral", 0, NoName),
                         Append(r.diags, Diag("NonU8CharLiteral", NoName)))
       ELSE Lowered(Expr("CharLiteral", 0, NoName),
                    Append(r.diags, Diag("TooManyCharsInCharLiteral", NoName)))

\* lower_expr_raw on a char literal whose components are one of `literals`
lower_char(literals) ==
    /\ AtExpr
    /\ \E components \in literals :
          leaf_expr("char", components, lower_char_literal(components))
    /\ UNCHANGED extVars

\* ---- array literals
\* A u32 is kept as two 16-bit halves <<high, low>>.
RECURSIVE as_u32(_)
\* `value as u32` of a u64 value: the value modulo 2^32
as_u32(d) ==
    IF Len(d) = 0 THEN <<0, 0>>
    ELSE LET r == as_u32(Pop(d))
             lo == r[2] * 10 + d[Len(d)]
         IN <<(r[1] * 10 + lo \div 65536) % 65536, lo % 65536>>

\* the decimal digits of a length below 100
Dec(n) == IF n < 10 THEN <<n>> ELSE <<n \div 10, n % 10>>

\* Option<u64>::None of Expr::Array.size
NoSize == <<>>

ArrayExpr(size, items, ty) ==
    [kind |-> "Array", v |-> NoId, n |-> NoName,
     size |-> size, items |-> items, ty |-> ty]

ArraySizeMismatch(found, expected) ==
    [kind |-> "ArraySizeMismatch", name |-> NoName,
     found |-> found, expected |-> expected]

\* the size of an array literal in the source
AbsentSize == [kind |-> "absent", text |-> <<>>]
LiteralSize(text) == [kind |-> "int", text |-> text]
OtherSize == [kind |-> "other", text |-> <<>>]

\* the items of the body, or no body at all
NoBody == [some |-> FALSE, items |-> <<>>]
Body(items) == [some |-> TRUE, items |-> items]

\* size as usize != items_len (usize of 64 bits)
size_differs(size, items_len) == size # Dec(items_len)

\* the size part of lower_array_expr: the lowered size and the diagnostics
array_size(size, body) ==
    IF size.kind = "absent" THEN [size |-> NoSize, diags |-> <<>>]
    ELSE IF size.kind = "other"
    THEN [size |-> NoSize, diags |-> <<Diag("ArraySizeNotConst", NoName)>>]
    ELSE LET r == lower_int_literal(size.text)
         IN IF r.expr.kind # "IntLiteral"
            THEN [size |-> NoSize, diags |-> r.diags]
            ELSE IF body.some /\ size_differs(r.expr.v, Len(body.items))
            THEN [size |-> r.expr.v,
                  diags |-> r.diags \o
                      <<ArraySizeMismatch(as_u32(Dec(Len(body.items))),
                                          as_u32(r.expr.v))>>]
            ELSE [size |-> r.expr.v, diags |-> r.diags]

\* lower_array_expr on `[size]ty{items}` whose type is a name (or absent)
\* and whose items are integer literals, and lower_expr allocating the array;
\* the literal is drawn from tys, bodies and sizes
lower_array(tys, bodies, sizes) ==
    /\ AtExpr
    /\ \E ty \in tys, body \in bodies, size \in sizes :
       LET t == IF ty = NoName
                THEN Lowered(Expr("Missing", NoId, NoName), <<>>)
                ELSE lower_var_ref(scopes, params, index, ty)
           its == [i \in 1..Len(body.items) |-> lower_int_literal(body.items[i])]
           RECURSIVE cat(_)
           cat(k) == IF k = 0 THEN <<>> ELSE cat(k - 1) \o its[k].diags
           sz == array_size(size, body)
           ids == [i \in 1..Len(its) |-> Len(exprs) + i]
           arr == ArrayExpr(sz.size,
                            [some |-> body.some, ids |-> ids], Len(exprs))
           added == t.diags \o cat(Len(its)) \o sz.diags
       IN /\ exprs' = (Append(exprs, t.expr)
                        \o [i \in 1..Len(its) |-> its[i].expr]) \o <<arr>>
          /\ diagnostics' = diagnostics \o added
          /\ last' = [op |-> "array",
                      text |-> [ty |-> ty, body |-> body, size |-> size],
                      result |-> arr, added |-> added]
    /\ stack' = ReturnTo(stack)
    /\ stmts' = StmtsAfterExpr(stack, stmts)
    /\ UNCHANGED <<index, pc, label_kinds, label_gen, scopes, params,
                   local_defs, global_bodies, label_decls, label_usages,
                   def_block, nblocks>>
    /\ UNCHANGED extVars

\* ---- imports
\* the character an escape sequence of a string literal pushes ("": none)
escape_text(c) ==
    CASE c = "0" -> "NUL" [] c = "a" -> "BEL" [] c = "b" -> "BS"
      [] c = "n" -> "LF" [] c = "f" -> "FF" [] c = "r" -> "CR"
      [] c = "t" -> "TAB" [] c = "v" -> "VT" [] c = "e" -> "ESC"
      [] c = "\"" -> "\"" [] c = "'" -> "'" [] c = "\\" -> "\\"
      [] OTHER -> ""

RECURSIVE lower_string_literal(_)
\* the text of Expr::StringLiteral and the diagnostics pushed
lower_string_literal(cs) ==
    IF Len(cs) = 0 THEN [text |-> <<>>, diags |-> <<>>]
    ELSE LET r == lower_string_literal(Pop(cs))
             c == cs[Len(cs)]
         IN IF ~c.esc THEN [r EXCEPT !.text = @ \o c.txt]
            ELSE IF escape_text(c.ch) # ""
            THEN [r EXCEPT !.text = Append(@, escape_text(c.ch))]
            ELSE [r EXCEPT !.diags = Append(@, Diag("InvalidEscape", NoName))]

\* std::path::MAIN_SEPARATOR_STR (of a Unix build)
MAIN_SEPARATOR == "/"

\* text.replace(['/', '\\'], MAIN_SEPARATOR_STR)
replace_separators(text) ==
    [i \in 1..Len(text) |->
        IF text[i] \in {"/", "\\"} THEN MAIN_SEPARATOR ELSE text[i]]

\* char::is_ascii_alphanumeric, on the characters the inputs are made of
AsciiAlphanumeric == {"a", "b", "c", "p", "y", "x", "1"}

\* slip: char::is_alphanumeric, which also holds of letters outside ASCII
is_alphanumeric(ch) == ch \in AsciiAlphanumeric \cup {"U+00E9"}

is_ascii_alphanumeric(ch) == ch \in AsciiAlphanumeric

DotCapy == <<".", "c", "a", "p", "y">>

ends_with(text, suffix) ==
    /\ Len(text) >= Len(suffix)
    /\ SubSeq(text, Len(text) - Len(suffix) + 1, Len(text)) = suffix

\* the interned FileName of a resolved import; the path is kept as joined
\* (`clean` only normalises it)
ModFile(module) == [root |-> "mod_dir", path |-> module \o <<"/", "mod.capy">>]
RelFile(fake, file) == [root |-> IF fake THEN "" ELSE "cwd", path |-> file]

ImportDiag(kind) == Lowered(Expr("Missing", NoId, NoName), <<Diag(kind, NoName)>>)

Imported(f) == Lowered([kind |-> "Import", v |-> NoId, n |-> NoName, file |-> f], <<>>)

\* lower_import of `import "file"` / `#mod("file")`; fs tells what the file
\* system holds: is_dir (module folder), mod_file (its mod.capy), is_file
\* (the imported file), inside (is_sub_dir_of mod_dir or the cwd)
lower_import_expr(fake, file_name, mod, fs) ==
    LET lit == lower_string_literal(file_name)
        file == replace_separators(lit.text)
    IN IF lit.diags # <<>>
       THEN Lowered(Expr("Missing", NoId, NoName), lit.diags)
       ELSE IF mod
       THEN IF ~\A i \in 1..Len(file) : is_ascii_alphanumeric(file[i])
            THEN ImportDiag("ModMustBeAlphanumeric")
            ELSE IF ~fake /\ ~fs.is_dir THEN ImportDiag("ModDoesNotExist")
            ELSE IF ~fake /\ ~fs.mod_file THEN ImportDiag("ModDoesNotContainModFile")
            ELSE Imported(ModFile(file))
       ELSE IF ~ends_with(file, DotCapy) THEN ImportDiag("ImportMustEndInDotCapy")
       ELSE IF ~fake /\ ~fs.is_file THEN ImportDiag("ImportDoesNotExist")
       ELSE IF ~fake /\ ~fs.inside THEN ImportDiag("ImportOutsideCWD")
       ELSE Imported(RelFile(fake, file))

lower_import(file_name, mod, fs) ==
    /\ AtExpr
    /\ LET r == lower_import_expr(fake_file_system, file_name, mod, fs)
       IN /\ exprs' = Append(exprs, r.expr)
          /\ diagnostics' = diagnostics \o r.diags
          /\ imports' = IF r.expr.kind = "Import"
                        THEN imports \cup {r.expr.file} ELSE imports
          /\ last' = [op |-> "import",
                      text |-> [file |-> file_name, mod |-> mod, fs |-> fs],
                      result |-> r.expr, added |-> r.diags,
                      imports0 |-> imports]
    /\ stack' = ReturnTo(stack)
    /\ stmts' = StmtsAfterExpr(stack, stmts)
    /\ UNCHANGED <<index, pc, label_kinds, label_gen, scopes, params,
                   local_defs, global_bodies, label_decls, label_usages,
                   def_block, nblocks, fake_file_system, indexVars,
                   driverVars, backendVars, rootVars>>

\* ------------------------------------------------------ literal inputs
RECURSIVE Strings(_, _)
\* the strings over the alphabet A of at most n characters
Strings(A, n) ==
    IF n = 0 THEN {<<>>}
    ELSE Strings(A, n - 1) \cup
         {Append(s, c) : s \in {q \in Strings(A, n - 1) : Len(q) = n - 1},
                         c \in A}

\* digit sequences around u64::MAX
BoundaryTexts ==
    {<<"1","8","4","4","6","7","4","4","0","7","3","7","0","9","5","5","1","6","1","5">>,
     <<"1","8","4","4","6","7","4","4","0","7","3","7","0","9","5","5","1","6","1","6">>,
     <<"1","8","4","4","6","7","4","4","0","7","3","7","0","9","5","5","1","6","1">>,
     <<"1","8","4","4","6","7","4","4","0","7","3","7","0","9","5","5","1","6","2">>}

\* exponents around u32::MAX
BigExponents ==
    {<<"4","2","9","4","9","6","7","2","9","5">>,
     <<"4","2","9","4","9","6","7","2","9","6">>}

\* a digit, then digits and `_` separators
DigitStrings(D) ==
    {<<d>> \o s : d \in D, s \in Strings(D \cup {"_"}, MaxDigits - 1)}

IntTexts ==
    {b \o x : b \in DigitStrings({"0", "1", "9"}) \cup BoundaryTexts,
              x \in {<<>>} \cup
                    {<<e>> \o d : e \in {"e", "E"},
                                  d \in DigitStrings({"0", "1", "2", "9"})
                                        \cup BigExponents}}

\* the components of a char literal: escapes and runs of plain characters
CharComponents ==
    {Escape(c) : c \in {"0", "n", "'", "q"}} \cup
    {Contents(t) : t \in Strings({"a", "U+00E9", "U+1F980"}, MaxChars) \ {<<>>}}

RECURSIVE ComponentLists(_)
ComponentLists(n) ==
    IF n = 0 THEN {<<>>}
    ELSE ComponentLists(n - 1) \cup
         {Append(s, c) : s \in {q \in ComponentLists(n - 1) : Len(q) = n - 1},
                         c \in CharComponents}

CharLiterals == ComponentLists(MaxComponents)

\* item values: one in range, one out of range
ItemTexts ==
    {<<"1">>,
     <<"1","8","4","4","6","7","4","4","0","7","3","7","0","9","5","5","1","6","1","6">>}

ArrayBodies == {NoBody} \cup {Body(s) : s \in Strings(ItemTexts, MaxItems)}

\* sizes of 2^32 and above
WideSizes ==
    {<<"4","2","9","4","9","6","7","2","9","6">>,
     <<"4","2","9","4","9","6","7","2","9","7">>,
     <<"4","2","9","4","9","6","7","2","9","8">>,
     <<"1","8","4","4","6","7","4","4","0","7","3","7","0","9","5","5","1","6","1","6">>}

ArraySizes ==
    {AbsentSize, OtherSize} \cup
    {LiteralSize(t) : t \in DigitStrings({"0", "1", "2"}) \cup WideSizes}

\* the string literal of an import: a stem, possibly an escape, an ending
PathStems == {<<>>, <<"a">>, <<"a", "/", "b">>, <<"U+00E9">>}
PathEnds == {<<>>, DotCapy, <<".", "c", "a", "p">>}
PathEscapes == {"\\", "q"}

Run(t) == IF t = <<>> THEN <<>> ELSE <<Contents(t)>>

ImportNames ==
    {Run(s) \o m \o Run(e) :
        s \in PathStems, e \in PathEnds,
        m \in {<<>>} \cup {<<Escape(c)>> : c \in PathEscapes}}

\* what the file system holds at the paths an import resolves to
FileSystems ==
    {[is_dir |-> TRUE, mod_file |-> TRUE, is_file |-> TRUE, inside |-> TRUE],
     [is_dir |-> FALSE, mod_file |-> FALSE, is_file |-> FALSE, inside |-> TRUE],
     [is_dir |-> TRUE, mod_file |-> FALSE, is_file |-> TRUE, inside |-> TRUE],
     [is_dir |-> TRUE, mod_file |-> TRUE, is_file |-> TRUE, inside |-> FALSE]}

\* ------------------------------------------------------------- the indexer
\* a definition of the root: its name (NoName: absent), its value ("lambda",
\* "expr" or "none"), whether it is `:=` (ast::Define::Variable) and whether
\* its type annotation fails to parse
Define(name, value, variable, ty_error) ==
    [name |-> name, value |-> value, variable |-> variable, ty_error |-> ty_error]

\* Definition::Function / Definition::Global of the definition at position at
Definition(kind, at) == [kind |-> kind, ty |-> at]

RangeInfo(at) == [whole |-> at, name |-> at, value |-> at]

\* HashMap::insert
Insert(f, k, v) == [x \in DOMAIN f \cup {k} |-> IF x = k THEN v ELSE f[x]]

\* Ctx::index_def (with index_lambda / index_global) on the Index and
\* diagnostics ix
index_def(ix, def, at) ==
    IF def.value = "none" \/ def.name = NoName THEN ix
    ELSE LET parsed == IF def.ty_error
                       THEN Append(ix.diagnostics, Diag("TyParseError", NoName))
                       ELSE ix.diagnostics
             definition == Definition(IF def.value = "lambda" THEN "Function"
                                      ELSE "Global", at)
         IN IF def.name \in DOMAIN ix.definitions
            THEN [ix EXCEPT !.diagnostics =
                                Append(parsed, Diag("AlreadyDefined", def.name))]
            ELSE [definitions |-> Insert(ix.definitions, def.name, definition),
                  range_info |-> Insert(ix.range_info, def.name, RangeInfo(at)),
                  diagnostics |-> parsed]

\* one iteration of the loop of `index` over root.defs
index_root_def(def) ==
    /\ ndefs < MaxDefs
    /\ LET pushed == IF def.variable
                     THEN Append(indexing_diagnostics, Diag("NonBindingAtRoot", NoName))
                     ELSE indexing_diagnostics
           r == index_def([definitions |-> definitions, range_info |-> range_info,
                           diagnostics |-> pushed], def, ndefs)
       IN /\ definitions' = r.definitions
          /\ range_info' = r.range_info
          /\ indexing_diagnostics' = r.diagnostics
          /\ last' = [op |-> "index_def", def |-> def,
                      definitions0 |-> definitions, range_info0 |-> range_info,
                      added |-> SubSeq(r.diagnostics, Len(indexing_diagnostics) + 1,
                                       Len(r.diagnostics))]
    /\ ndefs' = ndefs + 1
    /\ UNCHANGED <<lowerVars, driverVars, backendVars>>

Defines ==
    {Define(n, v, var, e) : n \in Names \cup {NoName},
                            v \in {"lambda", "expr", "none"},
                            var \in BOOLEAN, e \in BOOLEAN}

\* ------------------------------------------- indexing and lowering a root
\* the loop of `index` over root.defs, on the root of the file
index_next_def ==
    /\ ndefs < Len(root_defs)
    /\ index_root_def(root_defs[ndefs + 1])

\* what the value of a definition lowers to: lower_lambda for a lambda,
\* lower_expr for another value, lower_expr(None) for none
ValueExpr(def) ==
    IF def.value = "none" THEN Expr("Missing", NoId, NoName)
    ELSE IF def.value = "lambda" THEN Expr("Lambda", NoId, NoName)
    ELSE Expr("IntLiteral", NoId, NoName)

\* Ctx::lower_global on the definition at position `at`, the lowering of
\* its value summed up as the allocation of its expression
lower_global_def(def, at) ==
    IF def.name = NoName \/ def.name \in DOMAIN global_bodies
    THEN UNCHANGED <<exprs, global_bodies, body_def>>
    ELSE /\ exprs' = Append(exprs, ValueExpr(def))
         /\ global_bodies' = Insert(global_bodies, def.name, Len(exprs))
         /\ body_def' = Insert(body_def, def.name, at)

\* one iteration of the loop of `lower` over root.defs; the driver lowers a
\* file once it is indexed
lower_next_def ==
    /\ ndefs = Len(root_defs)
    /\ nlowered < Len(root_defs)
    /\ lower_global_def(root_defs[nlowered + 1], nlowered)
    /\ nlowered' = nlowered + 1
    /\ last' = [LastNone EXCEPT !.op = "root_def"]
    /\ UNCHANGED <<index, pc, stack, label_kinds, label_gen, scopes, params,
                   diagnostics, stmts, local_defs, label_decls, label_usages,
                   def_block, nblocks, imports, fake_file_system, root_defs>>
    /\ UNCHANGED <<indexVars, driverVars, backendVars>>

\* the definitions of a root: named or not, with a lambda, another value or
\* none
RootDefines ==
    {Define(n, v, FALSE, FALSE) : n \in Names \cup {NoName},
                                  v \in {"lambda", "expr", "none"}}

RECURSIVE Roots(_)
\* the roots of at most n definitions
Roots(n) ==
    IF n = 0 THEN {<<>>}
    ELSE Roots(n - 1) \cup
         {Append(r, d) : r \in {q \in Roots(n - 1) : Len(q) = n - 1},
                         d \in RootDefines}

\* -------------------------------------------------------------- the driver
\* the phases of eval in the order they run, which is also the order their
\* diagnostics are chained in
Phases == <<"syntax", "validation", "indexing", "lowering", "typing">>

\* a diagnostic as the driver sees it: its severity and the start of its
\* range
DriverDiag(severity, start) == [severity |-> severity, start |-> start]

Severities == {"Error", "Warning"}
Offsets == {0, 1}

\* what one phase may return: nothing or one diagnostic
PhaseOutputs ==
    {<<>>} \cup {<<DriverDiag(s, o)>> : s \in Severities, o \in Offsets}

\* main up to the call of eval: with a file argument or as a REPL
start_main(m) ==
    /\ driver_pc = "start"
    /\ mode' = m
    /\ driver_pc' = "eval"
    /\ UNCHANGED <<phase_out, driver_diagnostics, backend_calls, exit_status>>
    /\ UNCHANGED <<lowerVars, indexVars, backendVars, last>>

\* the phase Phases[i] of eval ran and returned the diagnostics ds
run_phase(i, ds) ==
    /\ DOMAIN phase_out = {Phases[k] : k \in 1..(i - 1)}
    /\ phase_out' = Insert(phase_out, Phases[i], ds)
    /\ UNCHANGED <<mode, driver_pc, driver_diagnostics, backend_calls, exit_status>>

\* lexer::lex, parse_repl_line and parse.errors()
parse(ds) ==
    /\ driver_pc = "eval"
    /\ run_phase(1, ds)
    /\ UNCHANGED <<lowerVars, indexVars, backendVars, last>>

\* ast::validation::validate
validate(ds) ==
    /\ driver_pc = "eval"
    /\ run_phase(2, ds)
    /\ UNCHANGED <<lowerVars, indexVars, backendVars, last>>

\* hir::index
index_file(ds) ==
    /\ driver_pc = "eval"
    /\ run_phase(3, ds)
    /\ UNCHANGED <<lowerVars, indexVars, backendVars, last>>

\* hir::lower
lower_file(ds) ==
    /\ driver_pc = "eval"
    /\ run_phase(4, ds)
    /\ UNCHANGED <<lowerVars, indexVars, backendVars, last>>

\* hir_types::infer_all
infer_all(ds) ==
    /\ driver_pc = "eval"
    /\ run_phase(5, ds)
    /\ UNCHANGED <<lowerVars, indexVars, backendVars, last>>

RECURSIVE chain(_, _)
\* syntax_errors.chain(..).chain(..).collect() over the first n phases
chain(out, n) ==
    IF n = 0 THEN <<>> ELSE chain(out, n - 1) \o out[Phases[n]]

any_error(ds) == \E i \in 1..Len(ds) : ds[i].severity = "Error"

\* the rest of eval: the diagnostics are collected and displayed, and the
\* file is compiled unless one of them is an error
report_and_compile ==
    /\ driver_pc = "eval"
    /\ DOMAIN phase_out = {Phases[k] : k \in 1..Len(Phases)}
    /\ driver_diagnostics' = chain(phase_out, Len(Phases))
    /\ backend_calls' = IF ~any_error(driver_diagnostics')
                        THEN backend_calls + 1 ELSE backend_calls
    /\ driver_pc' = "evaluated"
    /\ UNCHANGED <<mode, phase_out, exit_status>>
    /\ UNCHANGED <<lowerVars, indexVars, backendVars, last>>

\* eval returned Ok(()): with a file argument main returns Ok(()), the REPL
\* reads the next line
return_from_eval ==
    /\ driver_pc = "evaluated"
    /\ IF mode = "file"
       THEN /\ exit_status' = 0
            /\ driver_pc' = "exited"
            /\ UNCHANGED <<phase_out, driver_diagnostics, backend_calls>>
       ELSE /\ driver_pc' = "eval"
            /\ phase_out' = [p \in {} |-> <<>>]
            /\ driver_diagnostics' = <<>>
            /\ backend_calls' = 0
            /\ UNCHANGED exit_status
    /\ UNCHANGED mode
    /\ UNCHANGED <<lowerVars, indexVars, backendVars, last>>

\* --------------------------------------------------------- function compiler
\* hir::FileName of the files of the compilation
FileNames == {"main.capy", "lib.capy"}

\* Idx<hir::Comptime> of the comptime blocks a file can hold
ComptimeIds == 0..(MaxComptimes - 1)

\* hir::Expr as expr_to_const_data distinguishes them
IntConst == [kind |-> "IntLiteral"]

ComptimeExpr(c) == [kind |-> "Comptime", comptime |-> c]

ArrayConst(items) == [kind |-> "Array", items |-> items]

\* the key of comptime_results
ComptimeToCompile(f, c) == [file_name |-> f, comptime |-> c]

\* hir::Fqn
Fqn(f, n) == [file |-> f, name |-> n]

\* what expr_to_const_data returns or how it ends, and the keys it looked up
ConstData(outcome, lookups) == [outcome |-> outcome, lookups |-> lookups]

\* one comptime_results.get: the expression of file `owner` with id c was
\* looked up under `key`
Lookup(owner, c, key) == [owner |-> owner, comptime |-> c, key |-> key]

\* Idx<hir::Expr> of the items of an array literal and of the literal itself:
\* the items are allocated first
ExprIdxs == 0..MaxItems

RECURSIVE expr_to_const_data(_, _, _, _, _)
RECURSIVE items_to_const_data(_, _, _, _, _)
\* expr_to_const_data(module, expr) of the compiler `self`; meta_tys are the
\* expressions of self.file_name that self.tys records as types
expr_to_const_data(self, meta_tys, module, expr, idx) ==
    IF idx \in meta_tys
    THEN ConstData("type_id", <<>>)
    ELSE IF expr.kind = "IntLiteral"
    THEN ConstData("bytes", <<>>)
    ELSE IF expr.kind = "Array"
    THEN items_to_const_data(self, meta_tys, module, expr.items, 1)
    ELSE LET ctc == ComptimeToCompile(self.file_name, expr.comptime)
             looked == <<Lookup(module, expr.comptime, ctc)>>
         IN IF ctc \in self.comptime_results
            THEN ConstData("bytes", looked)
            ELSE ConstData("todo", looked)

\* the loop over the items of an array literal, from item i on
items_to_const_data(self, meta_tys, module, items, i) ==
    IF i > Len(items)
    THEN ConstData("bytes", <<>>)
    ELSE LET item == expr_to_const_data(self, meta_tys, module, items[i], i - 1)
         IN IF item.outcome = "todo"
            THEN item
            ELSE LET rest == items_to_const_data(self, meta_tys, module, items, i + 1)
                 IN ConstData(rest.outcome, item.lookups \o rest.lookups)

\* compile_global_binding_data(fqn) of the compiler `self`
compile_global_binding_data(self, meta_tys, fqn) ==
    IF fqn \in self.globals
    THEN [globals |-> self.globals, data |-> ConstData("memo", <<>>)]
    ELSE LET value == self.bodies_map[fqn.file].body
             bytes == expr_to_const_data(self, meta_tys, fqn.file, value,
                                         IF value.kind = "Array"
                                         THEN Len(value.items) ELSE 0)
         IN [globals |-> IF bytes.outcome = "todo"
                         THEN self.globals
                         ELSE self.globals \cup {fqn},
             data |-> bytes]

\* compile_global(fqn, no_load) of the compiler `self`
compile_global(self, meta_tys, fqn) ==
    LET ty == self.bodies_map[fqn.file].ty
    IN IF ty = "zero_sized"
       THEN [globals |-> self.globals, data |-> ConstData("none", <<>>)]
       ELSE IF ty = "function"
       THEN [globals |-> self.globals, data |-> ConstData("func_addr", <<>>)]
       ELSE compile_global_binding_data(self, meta_tys, fqn)

\* the FunctionCompiler as the actions see it
SelfCompiler ==
    [file_name |-> fc_file_name, comptime_results |-> comptime_results,
     globals |-> globals, bodies_map |-> bodies_map]

\* the name of the global each file defines
GlobalName == "x"

\* the comptime driver stores the result of one comptime block
eval_comptime(f, c) ==
    /\ c \in bodies_map[f].comptimes
    /\ ComptimeToCompile(f, c) \notin comptime_results
    /\ comptime_results' = comptime_results \cup {ComptimeToCompile(f, c)}
    /\ fc_file_name' = NoName
    /\ codegen_last' = [op |-> "eval_comptime"]
    /\ UNCHANGED <<bodies_map, globals>>
    /\ UNCHANGED <<lowerVars, indexVars, driverVars, tyVars, clifVars, last>>

\* a FunctionCompiler is created for a function of file f
new_function_compiler(f) ==
    /\ fc_file_name # f
    /\ fc_file_name' = f
    /\ codegen_last' = [op |-> "new"]
    /\ UNCHANGED <<bodies_map, comptime_results, globals>>
    /\ UNCHANGED <<lowerVars, indexVars, driverVars, tyVars, clifVars, last>>

\* compile_expr_with_args, arm Comptime: the expression belongs to the file
\* of the function being compiled
compile_comptime(c) ==
    /\ fc_file_name # NoName
    /\ c \in bodies_map[fc_file_name].comptimes
    /\ LET ctc == ComptimeToCompile(fc_file_name, c)
       IN codegen_last' =
              [op |-> "compile_expr",
               data |-> ConstData(IF ctc \in comptime_results
                                  THEN "result" ELSE "compile_body",
                                  <<Lookup(fc_file_name, c, ctc)>>)]
    /\ UNCHANGED <<bodies_map, comptime_results, fc_file_name, globals>>
    /\ UNCHANGED <<lowerVars, indexVars, driverVars, tyVars, clifVars, last>>

\* the global fqn is compiled for the function being compiled
compile_global_ref(op, fqn, meta_tys) ==
    /\ fc_file_name # NoName
    /\ LET r == compile_global(SelfCompiler, meta_tys, fqn)
       IN /\ globals' = r.globals
          /\ codegen_last' = [op |-> op, fqn |-> fqn, data |-> r.data]
    /\ UNCHANGED <<bodies_map, comptime_results, fc_file_name>>
    /\ UNCHANGED <<lowerVars, indexVars, driverVars, tyVars, clifVars, last>>

\* compile_expr_with_args, arm LocalGlobal: a global of the same file
compile_local_global(meta_tys) ==
    /\ fc_file_name \in FileNames
    /\ compile_global_ref("LocalGlobal", Fqn(fc_file_name, GlobalName), meta_tys)

\* compile_expr_with_args, arm Path with a previous of type Ty::File(file)
compile_path_global(file, meta_tys) ==
    /\ file \in FileNames
    /\ compile_global_ref("Path", Fqn(file, GlobalName), meta_tys)

\* ------------------------------------------------------------ codegen inputs
\* expressions a global can have as its value
ConstLeaves == {IntConst} \cup {ComptimeExpr(c) : c \in ComptimeIds}

ConstExprs ==
    ConstLeaves \cup
    {ArrayConst(items) :
        items \in UNION {[1..n -> ConstLeaves] : n \in 1..MaxItems}}

\* the comptime blocks an expression consists of
ComptimesOf(e) ==
    IF e.kind = "Comptime" THEN {e.comptime}
    ELSE IF e.kind = "Array"
    THEN {e.items[i].comptime :
             i \in {j \in 1..Len(e.items) : e.items[j].kind = "Comptime"}}
    ELSE {}

\* expressions of the compiling function's file that are types: none or one
MetaTys == {{}} \cup {{i} : i \in ExprIdxs}

\* a file: the type and the value of its global, and its comptime blocks
\* (those of the global's value and those of its function bodies)
FileBodies ==
    UNION {{[ty |-> "data", body |-> e, comptimes |-> cs] :
               cs \in {ComptimesOf(e), ComptimeIds}} : e \in ConstExprs}
    \cup {[ty |-> t, body |-> IntConst, comptimes |-> {}] :
             t \in {"function", "zero_sized"}}

\* -------------------------------------------------------- the type lattice
\* a u32 bit width as its two 16-bit halves, high half first
u32(n) == <<n \div 65536, n % 65536>>

\* u32::MAX, the bit width of isize and usize
PointerSized == <<65535, 65535>>

\* slip: <= for <
u32_lt_or_equal(a, b) == a[1] < b[1] \/ (a[1] = b[1] /\ a[2] <= b[2])

u32_lt(a, b) == a[1] < b[1] \/ (a[1] = b[1] /\ a[2] < b[2])

u32_leq(a, b) == a = b \/ u32_lt(a, b)

\* Ord::max
u32_max(a, b) == IF u32_lt(a, b) THEN b ELSE a

\* a * 2 on u32
u32_double(a) ==
    <<(a[1] * 2 + (a[2] * 2) \div 65536) % 65536, (a[2] * 2) % 65536>>

\* enum Ty (Array, File, Function and Void are left out; Ty::max treats them
\* as it treats Bool). The fqn of a Distinct is determined by its uid
IInt(w) == [k |-> "IInt", w |-> w]

UInt(w) == [k |-> "UInt", w |-> w]

Float(w) == [k |-> "Float", w |-> w]

Unknown == [k |-> "Unknown"]

Bool == [k |-> "Bool"]

AnyTy == [k |-> "Any"]

CharTy == [k |-> "Char"]

StringTy == [k |-> "String"]

TypeTy == [k |-> "Type"]

\* a Struct is determined by its uid, as a Distinct is
Struct(uid) == [k |-> "Struct", uid |-> uid]

Pointer(mutable, sub_ty) == [k |-> "Pointer", mutable |-> mutable, sub_ty |-> sub_ty]

Distinct(uid, ty) == [k |-> "Distinct", uid |-> uid, ty |-> ty]

\* Option<Ty>
None == [k |-> "None"]

Some(t) == t

IsInt(t) == t.k \in {"IInt", "UInt"}

\* the pattern Ty::IInt(0) | Ty::UInt(0)
IsWeakInt(t) == IsInt(t) /\ t.w = u32(0)

\* Ty::might_be_weak
RECURSIVE might_be_weak(_)
might_be_weak(self) ==
    IF self.k \in {"IInt", "UInt", "Float"} THEN self.w = u32(0)
    ELSE IF self.k = "Pointer" THEN might_be_weak(self.sub_ty)
    ELSE FALSE

\* Ty::is_equal_to
RECURSIVE is_equal_to(_, _)
is_equal_to(self, other) ==
    IF self = other THEN TRUE
    ELSE IF self.k = "Pointer" /\ other.k = "Pointer"
    THEN self.mutable = other.mutable /\ is_equal_to(self.sub_ty, other.sub_ty)
    ELSE IF self.k = "Distinct" /\ other.k = "Distinct"
    THEN self.uid = other.uid
    ELSE FALSE

\* Ty::can_fit_into
RECURSIVE can_fit_into(_, _)
can_fit_into(self, expected) ==
    IF self = expected THEN TRUE
    ELSE IF self.k = "Unknown" \/ expected.k = "Unknown" THEN TRUE
    ELSE IF \/ self.k = "IInt" /\ expected.k = "IInt"
            \/ self.k = "UInt" /\ expected.k = "UInt"
    THEN expected.w = u32(0) \/ u32_leq(self.w, expected.w)
    ELSE IF self.k = "IInt" /\ expected = UInt(u32(0)) THEN TRUE
    ELSE IF self.k = "IInt" /\ expected.k = "UInt" THEN FALSE
    ELSE IF self.k = "UInt" /\ expected.k = "IInt"
    THEN expected.w = u32(0) \/ u32_lt(self.w, expected.w)
    ELSE IF IsInt(self) /\ expected.k = "Float"
    THEN self.w = u32(0) \/ u32_lt(self.w, expected.w)
    ELSE IF self.k = "Float" /\ expected.k = "Float"
    THEN expected.w = u32(0) \/ u32_leq(self.w, expected.w)
    ELSE IF self.k = "Pointer" /\ expected.k = "Pointer"
    THEN /\ self.mutable \/ ~expected.mutable
         /\ \/ expected.sub_ty = AnyTy /\ ~might_be_weak(self.sub_ty)
            \/ can_fit_into(self.sub_ty, expected.sub_ty)
    ELSE IF self.k = "Struct" /\ expected.k = "Struct"
    THEN self.uid = expected.uid
    ELSE IF self.k = "Distinct" /\ expected.k = "Distinct"
    THEN self.uid = expected.uid
    ELSE IF expected.k = "Distinct" THEN can_fit_into(self, expected.ty)
    ELSE is_equal_to(self, expected)

\* Ty::has_semantics_of
RECURSIVE has_semantics_of(_, _)
has_semantics_of(self, expected) ==
    IF self.k = "Distinct" /\ IsWeakInt(expected)
    THEN has_semantics_of(self.ty, expected) \/ can_fit_into(self, expected)
    ELSE IF self.k = "Distinct" /\ IsInt(expected) THEN FALSE
    ELSE IF self.k = "Distinct" /\ expected.k = "Distinct"
    THEN self.uid = expected.uid \/ can_fit_into(self, expected)
    ELSE IF self.k = "Distinct"
    THEN has_semantics_of(self.ty, expected) \/ can_fit_into(self, expected)
    ELSE can_fit_into(self, expected)

\* Ty::max, the arm of a signed and an unsigned integer
max_signed_unsigned_geq(signed_bit_width, unsigned_bit_width) ==
    IF u32_leq(unsigned_bit_width, signed_bit_width)
    THEN Some(IInt(signed_bit_width))
    ELSE None

max_signed_unsigned(signed_bit_width, unsigned_bit_width) ==
    IF u32_lt(unsigned_bit_width, signed_bit_width)
    THEN Some(IInt(signed_bit_width))
    ELSE None

\* Ty::max, the arm of a strong integer and a float
max_int_float(int_bit_width, float_bit_width) ==
    IF u32_lt(int_bit_width, u32(64)) /\ float_bit_width = u32(0)
    THEN Some(Float(u32_max(u32_double(int_bit_width), u32(32))))
    ELSE IF u32_lt(int_bit_width, float_bit_width)
    THEN Some(Float(float_bit_width))
    ELSE None

\* Ty::max
ty_max(self, other) ==
    IF self = other THEN Some(self)
    ELSE IF self = UInt(u32(0)) /\ other = UInt(u32(0)) THEN Some(UInt(u32(0)))
    ELSE IF IsWeakInt(self) /\ IsWeakInt(other) THEN Some(IInt(u32(0)))
    ELSE IF self.k = "IInt" /\ other.k = "IInt"
    THEN Some(IInt(u32_max(self.w, other.w)))
    ELSE IF self.k = "UInt" /\ other.k = "UInt"
    THEN Some(UInt(u32_max(self.w, other.w)))
    ELSE IF self.k = "IInt" /\ other.k = "UInt"
    THEN max_signed_unsigned(self.w, other.w)
    ELSE IF self.k = "UInt" /\ other.k = "IInt"
    THEN max_signed_unsigned(other.w, self.w)
    ELSE IF IsWeakInt(self) /\ other.k = "Float" THEN Some(Float(other.w))
    ELSE IF self.k = "Float" /\ IsWeakInt(other) THEN Some(Float(self.w))
    ELSE IF IsInt(self) /\ other.k = "Float" THEN max_int_float(self.w, other.w)
    ELSE IF self.k = "Float" /\ IsInt(other) THEN max_int_float(other.w, self.w)
    ELSE IF self.k = "Float" /\ other.k = "Float"
    THEN Some(Float(u32_max(self.w, other.w)))
    ELSE IF self.k = "Distinct"
    THEN IF has_semantics_of(self, other) THEN Some(self) ELSE None
    ELSE IF other.k = "Distinct"
    THEN IF has_semantics_of(other, self) THEN Some(other) ELSE None
    ELSE IF self.k = "Unknown" THEN Some(other)
    ELSE IF other.k = "Unknown" THEN Some(self)
    ELSE None

\* a binary operation asks for the max of the types of its operands
take_max ==
    /\ ty_pc = "operands"
    /\ max_ty' = ty_max(ty_self, ty_other)
    /\ ty_pc' = "max"
    /\ UNCHANGED <<ty_self, ty_other, ty_op, ty_ok>>
    /\ UNCHANGED <<lowerVars, indexVars, driverVars, codegenVars, clifVars,
                   last>>

\* an assignment or argument asks whether the found type fits the expected
check_fit ==
    /\ ty_pc = "operands"
    /\ ty_ok' = can_fit_into(ty_self, ty_other)
    /\ ty_pc' = "fit"
    /\ UNCHANGED <<ty_self, ty_other, max_ty, ty_op>>
    /\ UNCHANGED <<lowerVars, indexVars, driverVars, codegenVars, clifVars,
                   last>>

\* hir::BinaryOp and hir::UnaryOp
ArithmeticOps == {"Add", "Sub", "Mul", "Div", "BAnd", "BOr", "Xor"}

IntegerOps == {"Mod", "LShift", "RShift"}

OrderOps == {"Lt", "Gt", "Le", "Ge"}

EqualityOps == {"Eq", "Ne"}

LogicOps == {"LAnd", "LOr"}

BinaryOps == ArithmeticOps \cup IntegerOps \cup OrderOps \cup EqualityOps \cup LogicOps

UnaryOps == {"Neg", "Pos", "BNot", "LNot"}

\* `expected` of <BinaryOp as TypedOp>::can_perform; slip: == and != also
\* take bool
binary_expected_with_bool(op) ==
    IF op \in ArithmeticOps \cup OrderOps THEN {IInt(u32(0)), Float(u32(0))}
    ELSE IF op \in IntegerOps THEN {IInt(u32(0))}
    ELSE IF op \in EqualityOps
    THEN {CharTy, IInt(u32(0)), Float(u32(0)), TypeTy, Bool}
    ELSE {Bool}

binary_expected(op) ==
    IF op \in ArithmeticOps \cup OrderOps THEN {IInt(u32(0)), Float(u32(0))}
    ELSE IF op \in IntegerOps THEN {IInt(u32(0))}
    ELSE IF op \in EqualityOps THEN {CharTy, IInt(u32(0)), Float(u32(0)), TypeTy}
    ELSE {Bool}

\* `expected` of <UnaryOp as TypedOp>::can_perform
unary_expected(op) ==
    IF op = "LNot" THEN {Bool} ELSE {IInt(u32(0)), Float(u32(0))}

\* expected.iter().any(|expected| found.has_semantics_of(expected))
can_perform(expected, found) ==
    \E e \in expected : has_semantics_of(found, e)

\* the type checker asks whether a binary operator takes an operand type
check_binary(op) ==
    /\ ty_pc = "operands"
    /\ ty_op' = op
    /\ ty_ok' = can_perform(binary_expected(op), ty_self)
    /\ ty_pc' = "binary"
    /\ UNCHANGED <<ty_self, ty_other, max_ty>>
    /\ UNCHANGED <<lowerVars, indexVars, driverVars, codegenVars, clifVars,
                   last>>

\* the type checker asks whether a unary operator takes an operand type
check_unary(op) ==
    /\ ty_pc = "operands"
    /\ ty_op' = op
    /\ ty_ok' = can_perform(unary_expected(op), ty_self)
    /\ ty_pc' = "unary"
    /\ UNCHANGED <<ty_self, ty_other, max_ty>>
    /\ UNCHANGED <<lowerVars, indexVars, driverVars, codegenVars, clifVars,
                   last>>

\* ------------------------------------------------------------- type inputs
\* the bit widths of the integer types, weak and pointer-sized included
IntWidths == {u32(0), u32(8), u32(16), u32(32), u32(64), u32(128), PointerSized}

\* the bit widths of the float types, weak included
FloatWidths == {u32(0), u32(32), u32(64)}

NumericTys ==
    {IInt(w) : w \in IntWidths} \cup {UInt(w) : w \in IntWidths}
        \cup {Float(w) : w \in FloatWidths}

\* the types with at most d nested pointers and distincts
RECURSIVE Tys(_)
Tys(d) ==
    IF d = 0
    THEN NumericTys \cup {Unknown, Bool, AnyTy, CharTy, StringTy, TypeTy}
             \cup {Struct(uid) : uid \in 0..(MaxUids - 1)}
    ELSE LET sub == Tys(d - 1)
         IN sub \cup {Pointer(m, t) : m \in BOOLEAN, t \in sub}
                \cup {Distinct(uid, t) : uid \in 0..(MaxUids - 1), t \in sub}

\* the distinct types a type consists of
RECURSIVE Distincts(_)
Distincts(t) ==
    IF t.k = "Distinct" THEN {t} \cup Distincts(t.ty)
    ELSE IF t.k = "Pointer" THEN Distincts(t.sub_ty)
    ELSE {}

\* a uid names one distinct type
UniqueUids(a, b) ==
    \A d1, d2 \in Distincts(a) \cup Distincts(b) : d1.uid = d2.uid => d1 = d2

\* ------------------------------------------------- codegen: control flow
\* hir::Expr of bool and void type, and hir::Stmt
Local(id) == [k |-> "Local", id |-> id]

Binary(op, lhs, rhs) == [k |-> "Binary", op |-> op, lhs |-> lhs, rhs |-> rhs]

While(scope_id, condition, body) ==
    [k |-> "While", scope_id |-> scope_id, condition |-> condition,
     body |-> body]

Block(scope_id, block_stmts) ==
    [k |-> "Block", scope_id |-> scope_id, stmts |-> block_stmts]

ExprStmt(expr) == [k |-> "Expr", expr |-> expr]

Break(label) == [k |-> "Break", label |-> label]

Continue(label) == [k |-> "Continue", label |-> label]

\* Cranelift instructions; `stmt` of a jump is the statement it was emitted
\* for (history)
load(local, dst) == [op |-> "load", local |-> local, dst |-> dst]

brif(cond, then_block, then_args, else_block, else_args) ==
    [op |-> "brif", cond |-> cond, then_block |-> then_block,
     then_args |-> then_args, else_block |-> else_block,
     else_args |-> else_args]

jump(block, args, stmt) ==
    [op |-> "jump", block |-> block, args |-> args, stmt |-> stmt]

return_(args) == [op |-> "return", args |-> args]

\* FunctionBuilder: blocks are numbered in creation order, values likewise
NewBuilder ==
    [blocks |-> <<>>, current |-> 0, nvalues |-> 0,
     exits |-> [s \in {} |-> 0], continues |-> [s \in {} |-> 0],
     result |-> NoId]

create_block(b) ==
    [b EXCEPT !.blocks = Append(@, [params |-> <<>>, insts |-> <<>>])]

switch_to_block(b, block) == [b EXCEPT !.current = block]

ins(b, inst) == [b EXCEPT !.blocks[b.current].insts = Append(@, inst)]

append_block_param(b, block) ==
    [b EXCEPT !.blocks[block].params = Append(@, b.nvalues),
              !.nvalues = @ + 1,
              !.result = b.nvalues]

\* Some(value) / None of compile_expr as block arguments
Args(result) == IF result = NoId THEN <<>> ELSE <<result>>

\* the Local arm of compile_expr_with_args: a load from the local's slot
compile_local(b, expr) ==
    [ins(b, load(expr.id, b.nvalues)) EXCEPT !.nvalues = @ + 1,
                                             !.result = b.nvalues]

\* the brif of the LAnd / LOr arms; slip: `||` branches like `&&`
logic_brif_and(op, lhs, rhs_block, exit_block) ==
    brif(lhs, rhs_block, <<>>, exit_block, <<lhs>>)

logic_brif(op, lhs, rhs_block, exit_block) ==
    IF op = "LAnd"
    THEN brif(lhs, rhs_block, <<>>, exit_block, <<lhs>>)
    ELSE brif(lhs, exit_block, <<lhs>>, rhs_block, <<>>)

\* Stmt::Break { label: Some(label), value: None }
compile_break(b, stmt) ==
    ins(b, jump(b.exits[stmt.label], <<>>, stmt))

\* Stmt::Continue { label: Some(label) }
compile_continue(b, stmt) ==
    ins(b, jump(b.exits[stmt.label], <<>>, stmt))

\* the statement loop of the Block arm stops behind a break or continue
did_break(block_stmts) ==
    \E i \in 1..Len(block_stmts) : block_stmts[i].k \in {"Break", "Continue"}

RECURSIVE compile_expr(_, _)
RECURSIVE compile_stmts(_, _, _)
\* compile_stmt, for the statements from the i-th on
compile_stmts(b, block_stmts, i) ==
    IF i > Len(block_stmts) THEN b
    ELSE LET stmt == block_stmts[i]
         IN IF stmt.k = "Break" THEN compile_break(b, stmt)
            ELSE IF stmt.k = "Continue" THEN compile_continue(b, stmt)
            ELSE compile_stmts(compile_expr(b, stmt.expr), block_stmts, i + 1)

\* compile_expr_with_args, the arms Local, Binary (LAnd, LOr), Block, While
compile_expr(b, expr) ==
    IF expr.k = "Local" THEN compile_local(b, expr)
    ELSE IF expr.k = "Binary"
    THEN LET rhs_block == Len(b.blocks) + 1
             exit_block == Len(b.blocks) + 2
             b1 == compile_expr(create_block(create_block(b)), expr.lhs)
             b2 == ins(b1, logic_brif(expr.op, b1.result, rhs_block,
                                      exit_block))
             b3 == compile_expr(switch_to_block(b2, rhs_block), expr.rhs)
             b4 == ins(b3, jump(exit_block, <<b3.result>>, None))
         IN append_block_param(switch_to_block(b4, exit_block), exit_block)
    ELSE IF expr.k = "Block"
    THEN LET body_block == Len(b.blocks) + 1
             exit_block == Len(b.blocks) + 2
             b1 == [create_block(create_block(b)) EXCEPT
                        !.exits = (expr.scope_id :> exit_block) @@ @]
             b2 == switch_to_block(ins(b1, jump(body_block, <<>>, None)),
                                   body_block)
             b3 == compile_stmts(b2, expr.stmts, 1)
             b4 == IF did_break(expr.stmts) THEN b3
                   ELSE ins(b3, jump(exit_block, <<>>, None))
         IN [switch_to_block(b4, exit_block) EXCEPT !.result = NoId]
    ELSE LET header_block == Len(b.blocks) + 1
             body_block == Len(b.blocks) + 2
             exit_block == Len(b.blocks) + 3
             b1 == [create_block(create_block(create_block(b))) EXCEPT
                        !.continues = (expr.scope_id :> header_block) @@ @,
                        !.exits = (expr.scope_id :> exit_block) @@ @]
             b2 == switch_to_block(ins(b1, jump(header_block, <<>>, None)),
                                   header_block)
             b3 == IF expr.condition = None
                   THEN ins(b2, jump(body_block, <<>>, None))
                   ELSE LET c == compile_expr(b2, expr.condition)
                        IN ins(c, brif(c.result, body_block, <<>>,
                                       exit_block, <<>>))
             b4 == compile_expr(switch_to_block(b3, body_block), expr.body)
             b5 == ins(b4, jump(header_block, <<>>, None))
         IN [switch_to_block(b5, exit_block) EXCEPT !.result = NoId]

\* FunctionCompiler::finish: the entry block, the body, the return
finish ==
    /\ run.pc = "source"
    /\ LET entry_block == 1
           b == compile_expr(switch_to_block(create_block(NewBuilder),
                                             entry_block), fn_body)
           done == ins(b, return_(Args(b.result)))
       IN /\ blocks' = done.blocks
          /\ exits' = done.exits
          /\ continues' = done.continues
          /\ run' = [pc |-> "running", block |-> entry_block, ip |-> 1,
                     env |-> [v \in {} |-> FALSE], trace |-> <<>>,
                     value |-> <<>>]
    /\ UNCHANGED <<fn_body, locals_mem>>
    /\ UNCHANGED <<lowerVars, indexVars, driverVars, codegenVars, tyVars,
                   convertVars, last>>

\* the instruction the execution is at
Inst == blocks[run.block].insts[run.ip]

\* the values after a branch to `block` with the arguments `args`
Bound(block, args) ==
    LET block_params == blocks[block].params
        n == IF Len(args) < Len(block_params) THEN Len(args)
             ELSE Len(block_params)
        bound == {block_params[i] : i \in 1..n}
    IN [v \in DOMAIN run.env \cup bound |->
            IF v \in bound
            THEN run.env[args[CHOOSE i \in 1..n : block_params[i] = v]]
            ELSE run.env[v]]

Branch(block, args) ==
    run' = [run EXCEPT !.block = block, !.ip = 1,
                       !.env = Bound(block, args)]

\* the machine executes a load of a local
exec_load ==
    /\ run.pc = "running"
    /\ Inst.op = "load"
    /\ Len(run.trace) < MaxTrace
    /\ run' = [run EXCEPT !.ip = @ + 1,
                          !.env = (Inst.dst :> locals_mem[Inst.local]) @@ @,
                          !.trace = Append(@, Inst.local)]
    /\ UNCHANGED <<fn_body, locals_mem, blocks, exits, continues>>
    /\ UNCHANGED <<lowerVars, indexVars, driverVars, codegenVars, tyVars,
                   convertVars, last>>

\* the machine executes a conditional branch
exec_brif ==
    /\ run.pc = "running"
    /\ Inst.op = "brif"
    /\ IF run.env[Inst.cond]
       THEN Branch(Inst.then_block, Inst.then_args)
       ELSE Branch(Inst.else_block, Inst.else_args)
    /\ UNCHANGED <<fn_body, locals_mem, blocks, exits, continues>>
    /\ UNCHANGED <<lowerVars, indexVars, driverVars, codegenVars, tyVars,
                   convertVars, last>>

\* the machine executes a jump
exec_jump ==
    /\ run.pc = "running"
    /\ Inst.op = "jump"
    /\ Branch(Inst.block, Inst.args)
    /\ UNCHANGED <<fn_body, locals_mem, blocks, exits, continues>>
    /\ UNCHANGED <<lowerVars, indexVars, driverVars, codegenVars, tyVars,
                   convertVars, last>>

\* the machine executes the return of the function
exec_return ==
    /\ run.pc = "running"
    /\ Inst.op = "return"
    /\ run' = [run EXCEPT !.pc = "returned",
                          !.value = [i \in 1..Len(Inst.args) |->
                                         run.env[Inst.args[i]]]]
    /\ UNCHANGED <<fn_body, locals_mem, blocks, exits, continues>>
    /\ UNCHANGED <<lowerVars, indexVars, driverVars, codegenVars, tyVars,
                   convertVars, last>>

\* --------------------------------------------------- control flow inputs
Locals == 1..MaxLocals

Operands == {Local(id) : id \in Locals}

Logic(S) == {Binary(op, lhs, rhs) : op \in LogicOps, lhs \in S, rhs \in S}

\* `&&` and `||` over locals, nested up to twice
LogicExprs ==
    LET once == Operands \cup Logic(Operands) IN once \cup Logic(once)

\* the statements of a loop body whose enclosing scopes are `labels`, the
\* loops among them `loops`
JumpStmts(labels, loops) ==
    {Break(l) : l \in labels} \cup {Continue(l) : l \in loops}

StmtLists(S) == {<<>>} \cup {<<s>> : s \in S} \cup {<<s, t>> : s \in S, t \in S}

\* while loops: scope 1 is the loop, scope 2 its body block; an inner loop
\* has the scopes 3 and 4
InnerLoops ==
    {While(3, None, Block(4, <<s>>)) : s \in JumpStmts({1, 2, 3, 4}, {1, 3})}

Loops ==
    {While(1, condition, Block(2, body)) :
        condition \in {None} \cup Operands,
        body \in StmtLists(JumpStmts({1, 2}, {1})
                               \cup {ExprStmt(e) : e \in Operands}
                               \cup {ExprStmt(e) : e \in InnerLoops})}

\* ------------------------------------------------------ codegen: type ids
\* the discriminants of convert.rs that the types of the model use
INT_DISCRIMINANT == 2
FLOAT_DISCRIMINANT == 3
BOOL_DISCRIMINANT == 4
STRING_DISCRIMINANT == 5
CHAR_DISCRIMINANT == 6
META_TYPE_DISCRIMINANT == 7
ANY_DISCRIMINANT == 8
STRUCT_DISCRIMINANT == 10
DISTINCT_DISCRIMINANT == 11
POINTER_DISCRIMINANT == 13

\* x << n on u32; the operands of convert.rs stay below 2^31
shl(x, n) == x * 2^n

RECURSIVE BitOr(_, _)
\* a | b on u32
BitOr(a, b) ==
    IF a = 0 THEN b
    ELSE IF b = 0 THEN a
    ELSE (IF a % 2 = 1 \/ b % 2 = 1 THEN 1 ELSE 0)
             + 2 * BitOr(a \div 2, b \div 2)

\* u32::min, u32::max
u32_min_of(a, b) == IF a < b THEN a ELSE b

u32_max_of(a, b) == IF a < b THEN b ELSE a

simple_id(discriminant, bit_width, signed) ==
    LET id == shl(discriminant, 26)
        byte_width == bit_width \div 8
        align == shl(u32_max_of(u32_min_of(byte_width, 8), 1), 5)
        sign == shl(IF signed THEN 1 ELSE 0, 9)
    IN BitOr(BitOr(BitOr(id, sign), align), byte_width)

\* `match *bit_width { u32::MAX => pointer_ty.bits(), other => other }`, for
\* the widths below 2^16 and u32::MAX
int_bits(bit_width, ptr_bits) ==
    IF bit_width = PointerSized THEN ptr_bits ELSE bit_width[2]

\* the arms of to_type_id and to_previous_type_id for the simple types
simple_type_id(self, ptr_bits) ==
    IF self.k = "IInt"
    THEN simple_id(INT_DISCRIMINANT, int_bits(self.w, ptr_bits), TRUE)
    ELSE IF self.k = "UInt"
    THEN simple_id(INT_DISCRIMINANT, int_bits(self.w, ptr_bits), FALSE)
    ELSE IF self.k = "Float"
    THEN simple_id(FLOAT_DISCRIMINANT, int_bits(self.w, ptr_bits), FALSE)
    ELSE IF self.k = "Bool" THEN simple_id(BOOL_DISCRIMINANT, 8, FALSE)
    ELSE IF self.k = "String"
    THEN simple_id(STRING_DISCRIMINANT, ptr_bits, FALSE)
    ELSE IF self.k = "Char" THEN simple_id(CHAR_DISCRIMINANT, 8, FALSE)
    ELSE IF self.k = "Type" THEN simple_id(META_TYPE_DISCRIMINANT, 32, FALSE)
    ELSE simple_id(ANY_DISCRIMINANT, 0, FALSE)

ComplexKinds == {"Struct", "Distinct", "Pointer"}

complex_discriminant(self) ==
    IF self.k = "Struct" THEN STRUCT_DISCRIMINANT
    ELSE IF self.k = "Distinct" THEN DISTINCT_DISCRIMINANT
    ELSE POINTER_DISCRIMINANT

\* MetaTyData::default(): nothing to compile, every generator unused
NewMetaTys ==
    [tys_to_compile |-> <<>>, struct_uid_gen |-> 0, distinct_uid_gen |-> 0,
     pointer_uid_gen |-> 0]

\* the generator of the kind of a type
uid_gen_of(meta, self) ==
    IF self.k = "Struct" THEN meta.struct_uid_gen
    ELSE IF self.k = "Distinct" THEN meta.distinct_uid_gen
    ELSE meta.pointer_uid_gen

\* UIDGenerator::generate_unique_id: the state after the call (the call
\* returns the count before it)
generate_unique_id(meta, self) ==
    IF self.k = "Struct" THEN [meta EXCEPT !.struct_uid_gen = @ + 1]
    ELSE IF self.k = "Distinct" THEN [meta EXCEPT !.distinct_uid_gen = @ + 1]
    ELSE [meta EXCEPT !.pointer_uid_gen = @ + 1]

\* tys_to_compile.iter().filter(same kind).enumerate().find(|ty| ty == self):
\* the index among the entries of the kind of self, NoId when absent
find_list_id(tys, self) ==
    LET at == {i \in 1..Len(tys) : tys[i] = self}
    IN IF at = {} THEN NoId
       ELSE LET first == CHOOSE i \in at : \A j \in at : i <= j
            IN Cardinality({j \in 1..(first - 1) : tys[j].k = self.k})

\* slip: a new entry is given the length of the whole list as its list id
new_list_id_of_len(meta, self) == Len(meta.tys_to_compile)

\* the list id of a type that is not yet in tys_to_compile
new_list_id(meta, self) == uid_gen_of(meta, self)

RECURSIVE to_type_id(_, _, _)
\* ToTyId::to_type_id: the MetaTyData after the call and the id returned
to_type_id(self, meta, ptr_bits) ==
    IF self.k \in ComplexKinds
    THEN LET found == find_list_id(meta.tys_to_compile, self)
             list_id == IF found # NoId THEN found ELSE new_list_id(meta, self)
             pushed == IF found # NoId THEN meta
                       ELSE generate_unique_id(
                                [meta EXCEPT !.tys_to_compile = Append(@, self)],
                                self)
             compiled ==
                 IF self.k = "Pointer"
                 THEN to_type_id(self.sub_ty, pushed, ptr_bits).meta
                 ELSE IF self.k = "Distinct"
                 THEN to_type_id(self.ty, pushed, ptr_bits).meta
                 ELSE pushed
         IN [meta |-> compiled,
             id |-> BitOr(shl(complex_discriminant(self), 26), list_id)]
    ELSE [meta |-> IF \E i \in 1..Len(meta.tys_to_compile) :
                          meta.tys_to_compile[i] = self
                   THEN meta
                   ELSE [meta EXCEPT !.tys_to_compile = Append(@, self)],
          id |-> simple_type_id(self, ptr_bits)]

\* ToTyId::to_previous_type_id, for a type that is in tys_to_compile
to_previous_type_id(self, meta, ptr_bits) ==
    IF self.k \in ComplexKinds
    THEN BitOr(shl(complex_discriminant(self), 26),
               find_list_id(meta.tys_to_compile, self))
    ELSE simple_type_id(self, ptr_bits)

\* a caller asks for the id of a type
call_to_type_id(tys) ==
    /\ convert_pc = "ready"
    /\ Len(meta_ty_data.tys_to_compile) < MaxTys
    /\ \E self \in tys :
          LET r == to_type_id(self, meta_ty_data, pointer_bits)
          IN /\ meta_ty_data' = r.meta
             /\ type_ids' = IF self \in DOMAIN type_ids THEN type_ids
                            ELSE Insert(type_ids, self, r.id)
             /\ last' = [op |-> "to_type_id", ty |-> self, id |-> r.id]
    /\ UNCHANGED <<pointer_bits, convert_pc>>
    /\ UNCHANGED <<lowerVars, indexVars, driverVars, codegenVars, tyVars,
                   flowVars>>

\* a caller asks for the id a type was given before
call_to_previous_type_id ==
    /\ convert_pc = "ready"
    /\ \E i \in 1..Len(meta_ty_data.tys_to_compile) :
          LET self == meta_ty_data.tys_to_compile[i]
          IN last' = [op |-> "to_previous_type_id", ty |-> self,
                      id |-> to_previous_type_id(self, meta_ty_data,
                                                 pointer_bits)]
    /\ UNCHANGED <<meta_ty_data, type_ids, pointer_bits, convert_pc>>
    /\ UNCHANGED <<lowerVars, indexVars, driverVars, codegenVars, tyVars,
                   flowVars>>

\* ----------------------------------------------------- type id inputs
SimpleTys ==
    {IInt(u32(32)), IInt(u32(64)), IInt(PointerSized), UInt(u32(64)),
     UInt(PointerSized), Bool, CharTy}

\* struct and distinct declarations: a uid names one type
ComplexTys ==
    {Struct(0), Distinct(1, Bool), Distinct(2, Pointer(FALSE, Bool))}
        \cup {Pointer(m, t) : m \in BOOLEAN, t \in {Bool, Struct(0)}}
        \cup {Pointer(FALSE, Pointer(FALSE, Bool))}

TypeIdTys == SimpleTys \cup ComplexTys

\* --------------------------------------------------------- specifications
Labels == LabelNames \cup {NoName}

\* globals, lambdas, comptime blocks and control flow
Structure ==
    \/ \E n \in Names : lower_global(n)
    \/ finish_global
    \/ lower_missing
    \/ \E l \in Labels : lower_block(l)
    \/ close_block
    \/ \E ps \in ParamLists(MaxParams) : lower_lambda(ps)
    \/ finish_lambda
    \/ lower_comptime
    \/ finish_comptime

\* labelled scopes and the statements that jump to them
Jumps ==
    \/ \E l \in Labels : lower_while(l)
    \/ close_while
    \/ lower_if
    \/ close_if
    \/ \E l \in Labels : lower_break(l)
    \/ \E l \in Labels : lower_continue(l)
    \/ lower_return

\* locals and references
Refs ==
    \/ \E n \in Names : lower_ref(n)
    \/ \E n \in Names : lower_local_define(n)
    \/ finish_define

Next == Structure \/ Jumps \/ Refs

Spec == Init /\ [][Next]_vars

\* files without loops, `if` and jump statements
NextNames == Structure \/ Refs

SpecNames == Init /\ [][NextNames]_vars

\* files without locals and references
NextJumps == Structure \/ Jumps

SpecJumps == Init /\ [][NextJumps]_vars

\* a file of one global whose value is a literal expression
InitLiterals == Init /\ index = {"x"}

Literals ==
    \/ lower_int(IntTexts)
    \/ lower_char(CharLiterals)
    \/ lower_array({"i32", NoName}, ArrayBodies, ArraySizes)

NextLiterals ==
    \/ \E n \in Names : lower_global(n)
    \/ finish_global
    \/ Literals

SpecLiterals == InitLiterals /\ [][NextLiterals]_vars

\* a file whose globals are import expressions, lowered with or without the
\* fake file system
InitImports ==
    /\ CtxInit
    /\ fake_file_system \in BOOLEAN
    /\ IndexIdle
    /\ DriverIdle
    /\ BackendIdle

NextImports ==
    \/ \E n \in Names : lower_global(n)
    \/ finish_global
    \/ \E f \in ImportNames, m \in BOOLEAN, fs \in FileSystems :
          lower_import(f, m, fs)

SpecImports == InitImports /\ [][NextImports]_vars

\* indexing of one file
InitIndex == Init /\ index = Names

NextIndex == \E d \in Defines : index_root_def(d)

SpecIndex == InitIndex /\ [][NextIndex]_vars

\* one run of the driver
InitDriver == Init /\ index = Names

NextDriver ==
    \/ \E m \in {"file", "repl"} : start_main(m)
    \/ \E ds \in PhaseOutputs : parse(ds)
    \/ \E ds \in PhaseOutputs : validate(ds)
    \/ \E ds \in PhaseOutputs : index_file(ds)
    \/ \E ds \in PhaseOutputs : lower_file(ds)
    \/ \E ds \in PhaseOutputs : infer_all(ds)
    \/ report_and_compile
    \/ return_from_eval

SpecDriver == InitDriver /\ [][NextDriver]_vars

\* code generation for the functions of two files that can refer to each
\* other's global
InitCodegen ==
    /\ CtxInit
    /\ index = Names
    /\ fake_file_system = TRUE
    /\ IndexIdle
    /\ DriverIdle
    /\ bodies_map \in [FileNames -> FileBodies]
    /\ comptime_results = {}
    /\ fc_file_name = NoName
    /\ globals = {}
    /\ codegen_last = [op |-> "none"]
    /\ TyIdle
    /\ ClifIdle

NextCodegen ==
    \/ \E f \in FileNames, c \in ComptimeIds : eval_comptime(f, c)
    \/ \E f \in FileNames : new_function_compiler(f)
    \/ \E c \in ComptimeIds : compile_comptime(c)
    \/ \E m \in MetaTys : compile_local_global(m)
    \/ \E f \in FileNames, m \in MetaTys : compile_path_global(f, m)

SpecCodegen == InitCodegen /\ [][NextCodegen]_vars

\* the max of two numeric types
InitNumerics ==
    /\ CtxInit
    /\ index = Names
    /\ fake_file_system = TRUE
    /\ IndexIdle
    /\ DriverIdle
    /\ CodegenIdle
    /\ ClifIdle
    /\ ty_self \in NumericTys
    /\ ty_other \in NumericTys
    /\ max_ty = None
    /\ ty_pc = "operands"
    /\ ty_op = NoName
    /\ ty_ok = FALSE

NextTy == take_max

SpecNumerics == InitNumerics /\ [][NextTy]_vars

\* the max of two types
InitLattice ==
    /\ CtxInit
    /\ index = Names
    /\ fake_file_system = TRUE
    /\ IndexIdle
    /\ DriverIdle
    /\ CodegenIdle
    /\ ClifIdle
    /\ ty_self \in Tys(MaxTyDepth)
    /\ ty_other \in Tys(MaxTyDepth)
    /\ UniqueUids(ty_self, ty_other)
    /\ max_ty = None
    /\ ty_pc = "operands"
    /\ ty_op = NoName
    /\ ty_ok = FALSE

SpecLattice == InitLattice /\ [][NextTy]_vars

\* the fit of one numeric type into another
NextFit == check_fit

SpecFitNumerics == InitNumerics /\ [][NextFit]_vars

\* the fit of one type into another
SpecFit == InitLattice /\ [][NextFit]_vars

\* an operator applied to an operand of one type
InitOperand ==
    /\ CtxInit
    /\ index = Names
    /\ fake_file_system = TRUE
    /\ IndexIdle
    /\ DriverIdle
    /\ CodegenIdle
    /\ ClifIdle
    /\ ty_self \in Tys(MaxTyDepth)
    /\ UniqueUids(ty_self, ty_self)
    /\ ty_other = Unknown
    /\ max_ty = None
    /\ ty_pc = "operands"
    /\ ty_op = NoName
    /\ ty_ok = FALSE

NextOperand ==
    \/ \E op \in BinaryOps : check_binary(op)
    \/ \E op \in UnaryOps : check_unary(op)

SpecOperand == InitOperand /\ [][NextOperand]_vars

\* ---- the control flow of `&&` and `||`
InitLogic ==
    /\ CtxInit
    /\ index = Names
    /\ fake_file_system = TRUE
    /\ IndexIdle
    /\ DriverIdle
    /\ CodegenIdle
    /\ TyIdle
    /\ fn_body \in LogicExprs
    /\ locals_mem \in [Locals -> BOOLEAN]
    /\ blocks = <<>>
    /\ exits = <<>>
    /\ continues = <<>>
    /\ run = [pc |-> "source"]
    /\ ConvertIdle

NextFlow ==
    \/ finish
    \/ exec_load
    \/ exec_brif
    \/ exec_jump
    \/ exec_return

SpecLogic == InitLogic /\ [][NextFlow]_vars

\* ---- the control flow of loops
InitLoops ==
    /\ CtxInit
    /\ index = Names
    /\ fake_file_system = TRUE
    /\ IndexIdle
    /\ DriverIdle
    /\ CodegenIdle
    /\ TyIdle
    /\ fn_body \in Loops
    /\ locals_mem \in [Locals -> BOOLEAN]
    /\ blocks = <<>>
    /\ exits = <<>>
    /\ continues = <<>>
    /\ run = [pc |-> "source"]
    /\ ConvertIdle

SpecLoops == InitLoops /\ [][NextFlow]_vars

\* ---- indexing and lowering the same root
InitRoot ==
    /\ CtxNew
    /\ index = Names
    /\ fake_file_system = TRUE
    /\ IndexIdle
    /\ DriverIdle
    /\ BackendIdle
    /\ root_defs \in Roots(MaxDefs)
    /\ nlowered = 0
    /\ body_def = [n \in {} |-> 0]

NextRoot ==
    \/ index_next_def
    \/ lower_next_def

SpecRoot == InitRoot /\ [][NextRoot]_vars

\* ---- type ids on one MetaTyData
InitTypeIds ==
    /\ CtxInit
    /\ index = Names
    /\ fake_file_system = TRUE
    /\ IndexIdle
    /\ DriverIdle
    /\ CodegenIdle
    /\ TyIdle
    /\ FlowIdle
    /\ meta_ty_data = NewMetaTys
    /\ pointer_bits \in {32, 64}
    /\ type_ids = [t \in {} |-> 0]
    /\ convert_pc = "ready"

NextTypeIds ==
    \/ call_to_type_id(TypeIdTys)
    \/ call_to_previous_type_id

SpecTypeIds == InitTypeIds /\ [][NextTypeIds]_vars

\* ------------------------------------------------------------------ claims
IsJump == last.op \in {"break", "continue"}

\* positions of the scopes of e that carry the label name n
Named(e, n) == {i \in 1..Len(e) : e[i].name = n}

\* positions of the scopes of e an unlabelled break (continue) may take
Eligible(e, require_loop) ==
    {i \in 1..Len(e) : e[i].kind = "Loop" \/ ~require_loop}

\* C1: a break/continue with label Some(id) targets a scope whose lowering
\* is still in progress when the statement is lowered, never a closed one.
C1_TargetEncloses ==
    (IsJump /\ last.label # NoId) =>
        \E i \in 1..Len(last.encl) : last.encl[i].id = last.label

\* C2: an unlabelled break takes the innermost enclosing block or loop, an
\* unlabelled continue the innermost enclosing loop.
C2_UnlabelledInnermost ==
    (IsJump /\ last.name = NoName) =>
        LET c == Eligible(last.enclFn, last.op = "continue")
        IN c # {} => last.label = last.enclFn[Max(c)].id

\* C3: return targets the outermost block of the enclosing function body,
\* or of the enclosing top-level global.
C3_ReturnOutermost ==
    (last.op = "return" /\ Len(last.enclFn) > 0) =>
        last.label = last.enclFn[1].id

\* C4: a lowered Break/Continue (from return, break or continue) has label
\* None only if lowering that statement emitted a diagnostic.
C4_NoneOnlyWithDiagnostic ==
    (last.op \in {"break", "continue", "return"} /\ last.label = NoId) =>
        Len(last.added) > 0

\* C5: once the globals are lowered, a block or loop has a label_decls entry
\* if and only if some break/continue targets it.
C5_DeclIffUsed ==
    (pc = "running" /\ stack = <<>>) =>
        \A id \in 0..(label_gen - 1) :
            id \in DOMAIN label_decls <=> id \in DOMAIN label_usages

\* C6: a labelled break/continue takes the nearest enclosing scope with that
\* name; without one it emits exactly one UndefinedLabel and has label None.
C6_LabelledNearest ==
    (IsJump /\ last.name # NoName) =>
        LET c == Named(last.enclFn, last.name)
        IN IF c = {}
           THEN /\ last.label = NoId
                /\ last.added = <<Diag("UndefinedLabel", last.name)>>
           ELSE last.label = last.enclFn[Max(c)].id

\* C7: continue naming a block emits ContinueNonLoop{name} and keeps the
\* block's id; unlabelled continue outside any loop emits
\* ContinueNonLoop{None} with label None; continue resolving to a loop emits
\* nothing.
C7_ContinueNonLoop ==
    last.op = "continue" =>
        LET c == Named(last.enclFn, last.name)
            loops == Eligible(last.enclFn, TRUE)
        IN /\ (last.name # NoName /\ c # {} /\ last.enclFn[Max(c)].kind = "Block")
                => /\ last.added = <<Diag("ContinueNonLoop", last.name)>>
                   /\ last.label = last.enclFn[Max(c)].id
           /\ (last.name = NoName /\ loops = {})
                => /\ last.added = <<Diag("ContinueNonLoop", NoName)>>
                   /\ last.label = NoId
           /\ (\E i \in 1..Len(label_kinds) :
                  label_kinds[i].id = last.label /\ label_kinds[i].kind = "Loop")
                => last.added = <<>>

\* position (from 0) of the parameter named n in the list ps, NoId if none
ParamIdx(ps, n) ==
    LET c == {i \in 1..Len(ps) : ps[i] = n}
    IN IF c = {} THEN NoId ELSE Max(c) - 1

\* C8: in the body of a lambda or comptime block a name of an enclosing
\* function's local or parameter never resolves to it: a reference resolves
\* only to locals and parameters of the body itself, else to a same-file
\* global, and with neither (nor a primitive type) to Missing with one
\* UndefinedRef.
C8_NoCapture ==
    (last.op = "ref" /\ last.inBody) =>
        LET own == last.expLocal # NoId \/ ParamIdx(last.ownParams, last.name) # NoId
        IN /\ last.result.kind = "Local" => last.result.v = last.expLocal
           /\ last.result.kind = "Param" =>
                 last.result.v = ParamIdx(last.ownParams, last.name)
           /\ (~own /\ last.name \in index) =>
                 /\ last.result = Expr("LocalGlobal", NoId, last.name)
                 /\ last.added = <<>>
           /\ (~own /\ last.name \notin index /\ ~IsPrimitive(last.name)) =>
                 /\ last.result = Expr("Missing", NoId, NoName)
                 /\ last.added = <<Diag("UndefinedRef", last.name)>>

\* a reference in a lambda/comptime body to a name that only an enclosing
\* function defines lowered to Missing
C8_Witness ==
    /\ last.op = "ref" /\ last.inBody /\ last.outer
    /\ last.expLocal = NoId /\ ParamIdx(last.ownParams, last.name) = NoId
    /\ last.result.kind = "Missing"
    /\ Len(last.added) = 1

\* C9: a reference resolves to the first match among visible local,
\* parameter of the current lambda, same-file global, primitive type; with
\* no match it is Missing with exactly one UndefinedRef.
C9_ResolutionOrder ==
    last.op = "ref" =>
        IF last.expLocal # NoId
        THEN last.result = Expr("Local", last.expLocal, NoName) /\ last.added = <<>>
        ELSE IF ParamIdx(last.ownParams, last.name) # NoId
        THEN /\ last.result = Expr("Param", ParamIdx(last.ownParams, last.name), NoName)
             /\ last.added = <<>>
        ELSE IF last.name \in index
        THEN last.result = Expr("LocalGlobal", NoId, last.name) /\ last.added = <<>>
        ELSE IF IsPrimitive(last.name)
        THEN last.result = Expr("PrimitiveTy", NoId, last.name) /\ last.added = <<>>
        ELSE /\ last.result = Expr("Missing", NoId, NoName)
             /\ last.added = <<Diag("UndefinedRef", last.name)>>

\* a name that is both a visible local and a global resolved to the local
C9_Witness ==
    /\ last.op = "ref"
    /\ last.expLocal # NoId
    /\ last.name \in index
    /\ last.result.kind = "Local"

\* C10: a reference resolves to a local exactly when a finished definition
\* of the name lies in a block that is still being lowered (the latest such
\* definition), and closing a block leaves the scope stack as deep as it was
\* when the block was entered.
C10_LocalScope ==
    /\ last.op = "ref" =>
          /\ last.result.kind = "Local" <=> last.expLocal # NoId
          /\ last.result.kind = "Local" =>
                /\ last.result.v = last.expLocal
                /\ last.result.v < Len(local_defs)
    /\ last.op = "close" => last.d1 = last.d0

\* a reference after the end of the block that defined the name did not
\* resolve to that local
C10_Witness ==
    /\ last.op = "ref"
    /\ last.result.kind # "Local"
    /\ \E d \in 1..Len(local_defs) :
          /\ local_defs[d].name = last.name
          /\ \A i \in 1..Len(stack) : stack[i].bid # def_block[d]

\* ---- integer literals
\* base digits and exponent digits of a literal, separators dropped
LitBase(t) ==
    LET d == SelectSeq(t, LAMBDA c : c # "_")
        i == CHOOSE k \in 1..(Len(d) + 1) :
                /\ \A j \in 1..(k - 1) : d[j] \in DigitChars
                /\ (k <= Len(d) => d[k] \notin DigitChars)
    IN [j \in 1..(i - 1) |-> DigitVal(d[j])]

LitExp(t) ==
    LET d == SelectSeq(t, LAMBDA c : c # "_")
        n == Len(LitBase(t))
    IN [j \in 1..(Len(d) - n - 1) |-> DigitVal(d[n + 1 + j])]

\* the decimal digits of digits x 10^exponent when that fits in 64 bits,
\* <<>> when it does not
LitValue(t) ==
    LET b == strip_zeros(LitBase(t))
        e == strip_zeros(LitExp(t))
    IN IF b = <<0>> THEN <<0>>
       ELSE IF Len(LitExp(t)) = 0 THEN (IF dec_leq(b, U64_MAX) THEN b ELSE <<>>)
       ELSE IF ~dec_leq(e, <<1, 9>>) THEN <<>>
       ELSE IF dec_leq(b \o Zeros(Small(e)), U64_MAX)
       THEN b \o Zeros(Small(e)) ELSE <<>>

\* C11: an integer literal lowers to IntLiteral(v) with no diagnostic exactly
\* when v = digits x 10^exponent fits in 64 bits, and otherwise to Missing
\* with exactly one OutOfRangeIntLiteral.
C11_IntLiteralRange ==
    last.op = "int" =>
        IF LitValue(last.text) # <<>>
        THEN /\ last.result.kind = "IntLiteral"
             /\ last.result.v = LitValue(last.text)
             /\ last.added = <<>>
        ELSE /\ last.result.kind = "Missing"
             /\ last.added = <<Diag("OutOfRangeIntLiteral", NoName)>>

\* ---- char literals
RECURSIVE CharCount(_)
\* the number of characters a char literal consists of
CharCount(cs) ==
    IF Len(cs) = 0 THEN 0
    ELSE CharCount(Pop(cs)) + (IF cs[Len(cs)].esc THEN 1 ELSE Len(cs[Len(cs)].txt))

RecognizedEscapes == {"0", "a", "b", "n", "f", "r", "t", "v", "e", "'", "\"", "\\"}

\* the literal is one ASCII character or one recognized escape
OneAsciiChar(cs) ==
    /\ Len(cs) = 1
    /\ IF cs[1].esc THEN cs[1].ch \in RecognizedEscapes
       ELSE Len(cs[1].txt) = 1 /\ CharCode(cs[1].txt[1]) < 128

HasDiag(ds, kind) == \E i \in 1..Len(ds) : ds[i].kind = kind

\* C12: a char literal lowers to a CharLiteral without a diagnostic only if
\* it is exactly one ASCII character or one recognized escape; an empty
\* literal, one of several characters and one whose single character is not
\* ASCII emit EmptyCharLiteral, TooManyCharsInCharLiteral, NonU8CharLiteral
\* and lower to CharLiteral(0).
C12_CharLiteral ==
    last.op = "char" =>
        LET n == CharCount(last.text)
            bad(kind) == HasDiag(last.added, kind) /\ last.result.v = 0
        IN /\ last.result.kind = "CharLiteral"
           /\ last.added = <<>> => OneAsciiChar(last.text)
           /\ n = 0 => bad("EmptyCharLiteral")
           /\ n > 1 => bad("TooManyCharsInCharLiteral")
           /\ (n = 1 /\ ~last.text[1].esc /\ ~OneAsciiChar(last.text))
                 => bad("NonU8CharLiteral")

\* the literal is one character that fits a byte or one recognized escape
OneByteChar(cs) ==
    /\ Len(cs) = 1
    /\ IF cs[1].esc THEN cs[1].ch \in RecognizedEscapes
       ELSE Len(cs[1].txt) = 1 /\ CharCode(cs[1].txt[1]) < 256

\* C12 (amended): a char literal lowers to a CharLiteral without a
\* diagnostic only if it is exactly one character up to U+00FF or one
\* recognized escape, and then to that character's value; an empty literal,
\* one of several characters and one whose single character is above U+00FF
\* emit EmptyCharLiteral, TooManyCharsInCharLiteral, NonU8CharLiteral and
\* lower to CharLiteral(0).
C12_CharLiteralByte ==
    last.op = "char" =>
        LET n == CharCount(last.text)
            bad(kind) == HasDiag(last.added, kind) /\ last.result.v = 0
        IN /\ last.result.kind = "CharLiteral"
           /\ last.added = <<>> =>
                 /\ OneByteChar(last.text)
                 /\ last.result.v = IF last.text[1].esc
                                    THEN escape_char(last.text[1].ch)
                                    ELSE CharCode(last.text[1].txt[1])
           /\ n = 0 => bad("EmptyCharLiteral")
           /\ n > 1 => bad("TooManyCharsInCharLiteral")
           /\ (n = 1 /\ ~last.text[1].esc /\ ~OneByteChar(last.text))
                 => bad("NonU8CharLiteral")

\* a single character between U+0080 and U+00FF lowered to its value without
\* a diagnostic
C12_Witness ==
    /\ last.op = "char"
    /\ CharCount(last.text) = 1
    /\ ~OneAsciiChar(last.text) /\ OneByteChar(last.text)
    /\ last.added = <<>>
    /\ last.result.v > 127

\* ---- array literals
OfKind(ds, kind) == SelectSeq(ds, LAMBDA d : d.kind = kind)

\* C13: with a literal size N and an item count that differs from N exactly
\* one ArraySizeMismatch{found: item count, expected: N} is emitted and the
\* array keeps size N and all items; with equal sizes no array-size
\* diagnostic is emitted; with a non-literal size ArraySizeNotConst is
\* emitted and the array has no size.
C13_ArraySize ==
    last.op = "array" =>
        LET sz == last.text.size
            cnt == Len(last.text.body.items)
            N == IF sz.kind = "int" THEN LitValue(sz.text) ELSE <<>>
            mism == OfKind(last.added, "ArraySizeMismatch")
            notc == OfKind(last.added, "ArraySizeNotConst")
        IN /\ (N # <<>> /\ last.text.body.some /\ N # Dec(cnt)) =>
                 /\ Len(mism) = 1
                 /\ mism[1].found = <<0, cnt>>
                 /\ dec_leq(N, U32_MAX) /\ mism[1].expected = as_u32(N)
                 /\ last.result.size = N
                 /\ Len(last.result.items.ids) = cnt
           /\ (N # <<>> /\ last.text.body.some /\ N = Dec(cnt)) =>
                 mism = <<>> /\ notc = <<>>
           /\ sz.kind = "other" =>
                 Len(notc) = 1 /\ last.result.size = NoSize

\* ---- imports
\* the path an import names, and whether its literal has an invalid escape
ImportPath(f) == lower_string_literal(f).text

InvalidEscapes(f) == \E i \in 1..Len(f) : f[i].esc /\ escape_text(f[i].ch) = ""

\* the path fails the validation of its kind of import
BadPath(f, mod) ==
    IF mod THEN \E i \in 1..Len(ImportPath(f)) :
                    ImportPath(f)[i] \notin AsciiAlphanumeric
    ELSE ~ends_with(ImportPath(f), DotCapy)

PathDiag(mod) ==
    Diag(IF mod THEN "ModMustBeAlphanumeric" ELSE "ImportMustEndInDotCapy", NoName)

ImportedFiles ==
    {exprs[i].file : i \in {j \in 1..Len(exprs) : exprs[j].kind = "Import"}}

\* C14: an import lowers to Import(F), with F added to the import set, only
\* when its path is valid; a non-mod path not ending in `.capy` and a mod
\* path that is not ASCII-alphanumeric lower to Missing with exactly one
\* ImportMustEndInDotCapy / ModMustBeAlphanumeric and an unchanged import
\* set; the import set is the set of files of the Import expressions.
C14_ImportValidation ==
    /\ imports = ImportedFiles
    /\ last.op = "import" =>
          LET bad == BadPath(last.text.file, last.text.mod)
          IN /\ last.result.kind = "Import" =>
                   ~bad /\ last.result.file \in imports
             /\ bad => /\ last.result.kind = "Missing"
                       /\ last.added = <<PathDiag(last.text.mod)>>
                       /\ imports = last.imports0

\* C14 (amended): as C14 for a string literal without invalid escapes; a
\* literal with an invalid escape lowers to Missing with only InvalidEscape
\* diagnostics and an unchanged import set, whatever its path.
C14_ImportValidationEscapes ==
    /\ imports = ImportedFiles
    /\ last.op = "import" =>
          LET bad == BadPath(last.text.file, last.text.mod)
              esc == InvalidEscapes(last.text.file)
          IN /\ last.result.kind = "Import" =>
                   ~esc /\ ~bad /\ last.result.file \in imports
             /\ (~esc /\ bad) =>
                   /\ last.result.kind = "Missing"
                   /\ last.added = <<PathDiag(last.text.mod)>>
                   /\ imports = last.imports0
             /\ esc => /\ last.result.kind = "Missing"
                       /\ last.added # <<>>
                       /\ \A i \in 1..Len(last.added) :
                             last.added[i].kind = "InvalidEscape"
                       /\ imports = last.imports0

\* after a successful import, an import whose path fails validation lowered
\* to Missing and left the import set as it was
C14_Witness ==
    /\ last.op = "import"
    /\ ~InvalidEscapes(last.text.file)
    /\ BadPath(last.text.file, last.text.mod)
    /\ last.result.kind = "Missing"
    /\ last.imports0 # {} /\ imports = last.imports0

\* ---- the indexer
\* C15: every definition of a name the Index already holds adds exactly one
\* AlreadyDefined diagnostic and leaves definitions and range_info as they
\* were, so that the first indexed definition of a name stays; definitions
\* and range_info always have the same keys.
C15_FirstDefinitionKept ==
    /\ DOMAIN definitions = DOMAIN range_info
    /\ (last.op = "index_def" /\ last.def.name \in DOMAIN last.definitions0) =>
          /\ definitions = last.definitions0
          /\ range_info = last.range_info0
          /\ OfKind(last.added, "AlreadyDefined")
                = <<Diag("AlreadyDefined", last.def.name)>>
    /\ (last.op = "index_def" /\ last.def.value # "none"
          /\ last.def.name \in Names \ DOMAIN last.definitions0) =>
          /\ definitions[last.def.name].ty = ndefs - 1
          /\ range_info[last.def.name] = RangeInfo(ndefs - 1)
          /\ \A n \in DOMAIN last.definitions0 :
                /\ definitions[n] = last.definitions0[n]
                /\ range_info[n] = last.range_info0[n]
          /\ OfKind(last.added, "AlreadyDefined") = <<>>

\* ---- the driver
\* C16: every phase runs whatever the earlier phases reported; then, if a
\* collected diagnostic is an error, the backend is not invoked and the
\* driver exits with a non-zero status, and if none is, the backend is
\* invoked.
C16_ErrorsStopCompilation ==
    /\ driver_pc \in {"evaluated", "exited"} =>
          /\ DOMAIN phase_out = {Phases[k] : k \in 1..Len(Phases)}
          /\ any_error(driver_diagnostics) => backend_calls = 0
          /\ ~any_error(driver_diagnostics) => backend_calls = 1
    /\ (driver_pc = "exited" /\ any_error(driver_diagnostics)) =>
          exit_status # 0

\* C17: the diagnostics displayed for a file are in source-position order:
\* of any two, the one with the smaller start offset comes first, whichever
\* phase produced it.
C17_SourceOrder ==
    driver_pc \in {"evaluated", "exited"} =>
        \A i, j \in 1..Len(driver_diagnostics) :
            driver_diagnostics[i].start < driver_diagnostics[j].start => i < j

\* ---- the function compiler
\* C18: whenever codegen materializes a comptime expression with id c that
\* belongs to file F, it looks the result up under the key (F, c), also when
\* the expression is part of a global of F compiled for a function of
\* another file
C18_ComptimeKey ==
    codegen_last.op \in {"compile_expr", "LocalGlobal", "Path"} =>
        \A i \in 1..Len(codegen_last.data.lookups) :
            LET l == codegen_last.data.lookups[i]
            IN l.key = ComptimeToCompile(l.owner, l.comptime)

\* ---- the type lattice
\* the widths of the operands when one is a signed and the other an unsigned
\* integer
IsSignedUnsigned ==
    /\ ty_pc = "max"
    /\ {ty_self.k, ty_other.k} = {"IInt", "UInt"}

SignedWidth == IF ty_self.k = "IInt" THEN ty_self.w ELSE ty_other.w

UnsignedWidth == IF ty_self.k = "UInt" THEN ty_self.w ELSE ty_other.w

\* C19: for every signed width s and unsigned width u, weak and
\* pointer-sized included, the max of IInt(s) and UInt(u), in either order,
\* is Some(IInt(s)) if s > u and None otherwise
C19_SignedUnsigned ==
    IsSignedUnsigned =>
        max_ty = IF u32_lt(UnsignedWidth, SignedWidth)
                 THEN Some(IInt(SignedWidth))
                 ELSE None

\* C19 as amended: two weak integers give the weak signed integer
C19_SignedUnsignedWeak ==
    IsSignedUnsigned =>
        max_ty = IF u32_lt(UnsignedWidth, SignedWidth)
                 THEN Some(IInt(SignedWidth))
                 ELSE IF SignedWidth = u32(0) /\ UnsignedWidth = u32(0)
                 THEN Some(IInt(u32(0)))
                 ELSE None

C19_Witness ==
    /\ ty_pc = "max"
    /\ ty_self = UInt(u32(64))
    /\ ty_other = IInt(PointerSized)
    /\ max_ty = Some(IInt(PointerSized))

\* C20: whenever the max of a and b is Some(t), both a and b can fit into t
C20_MaxFitsBoth ==
    (ty_pc = "max" /\ max_ty # None) =>
        /\ can_fit_into(ty_self, max_ty)
        /\ can_fit_into(ty_other, max_ty)

\* ---- the fit relation
\* a struct or a distinct type
IsNominal(t) == t.k \in {"Struct", "Distinct"}

\* Ty::is_unknown on the types of the model
RECURSIVE is_unknown(_)
is_unknown(t) ==
    IF t.k = "Unknown" THEN TRUE
    ELSE IF t.k = "Pointer" THEN is_unknown(t.sub_ty)
    ELSE IF t.k = "Distinct" THEN is_unknown(t.ty)
    ELSE FALSE

\* C21: for known types, a fit with a struct or distinct type on either side
\* holds only if both sides are of the same kind and have the same uid
C21_NominalFit ==
    (/\ ty_pc = "fit"
     /\ ~is_unknown(ty_self) /\ ~is_unknown(ty_other)
     /\ IsNominal(ty_self) \/ IsNominal(ty_other)
     /\ ty_ok)
        => (ty_self.k = ty_other.k /\ ty_self.uid = ty_other.uid)

\* the order of two bit widths as numbers
Narrower(a, b) == a[1] < b[1] \/ (a[1] = b[1] /\ a[2] < b[2])

\* found and expected are both integer types
BothInts == ty_pc = "fit" /\ IsInt(ty_self) /\ IsInt(ty_other)

\* C22: between integer types of equal signedness the fit holds when the
\* expected width is at least the found width; from unsigned to signed only
\* when the signed width is strictly larger; from signed to unsigned never,
\* except into the weak UInt(0)
C22_IntegerFit ==
    BothInts =>
        ty_ok = IF ty_self.k = ty_other.k
                THEN ~Narrower(ty_other.w, ty_self.w)
                ELSE IF ty_self.k = "UInt"
                THEN Narrower(ty_self.w, ty_other.w)
                ELSE ty_other = UInt(u32(0))

\* C22 as amended: every integer type also fits a weak expected type
C22_IntegerFitWeak ==
    BothInts =>
        ty_ok = IF ty_other.w = u32(0) THEN TRUE
                ELSE IF ty_self.k = ty_other.k
                THEN ~Narrower(ty_other.w, ty_self.w)
                ELSE IF ty_self.k = "UInt"
                THEN Narrower(ty_self.w, ty_other.w)
                ELSE FALSE

C22_Witness ==
    /\ ty_pc = "fit"
    /\ ty_self = UInt(u32(32))
    /\ ty_other = IInt(u32(64))
    /\ ty_ok

\* the type under the distinct wrappers of a type
RECURSIVE Inner(_)
Inner(t) == IF t.k = "Distinct" THEN Inner(t.ty) ELSE t

\* the kinds of operand the operator table gives an operator
TableKinds(op) ==
    IF op \in ArithmeticOps \cup OrderOps \cup {"Neg", "Pos", "BNot"}
    THEN {"IInt", "UInt", "Float"}
    ELSE IF op \in IntegerOps THEN {"IInt", "UInt"}
    ELSE IF op \in EqualityOps THEN {"IInt", "UInt", "Float", "Char", "Type"}
    ELSE {"Bool"}

\* C23: for a known operand type, can_perform of a binary or unary operator
\* accepts exactly the kinds of the operator table, and a distinct type
\* exactly when the type it wraps is accepted
C23_OperatorTable ==
    (ty_pc \in {"binary", "unary"} /\ ~is_unknown(ty_self))
        => (ty_ok <=> Inner(ty_self).k \in TableKinds(ty_op))

C23_Witness ==
    /\ ty_pc = "binary"
    /\ ty_op = "Eq"
    /\ ty_self = Distinct(0, Bool)
    /\ ~ty_ok

\* the value of an expression of `&&` and `||` over locals and the locals it
\* reads, in order, when the right operand is evaluated only if the left one
\* does not decide
RECURSIVE ShortCircuit(_, _)
ShortCircuit(e, mem) ==
    IF e.k = "Local" THEN [value |-> mem[e.id], reads |-> <<e.id>>]
    ELSE LET a == ShortCircuit(e.lhs, mem)
         IN IF a.value = (e.op = "LAnd")
            THEN LET b == ShortCircuit(e.rhs, mem)
                 IN [value |-> b.value, reads |-> a.reads \o b.reads]
            ELSE a

\* C24: the code emitted for `a && b` executes b only where a was true, the
\* code for `a || b` only where a was false; the value is a's where b is
\* skipped and b's otherwise, and a is evaluated exactly once
C24_ShortCircuit ==
    run.pc = "returned"
        => /\ run.value = <<ShortCircuit(fn_body, locals_mem).value>>
           /\ run.trace = ShortCircuit(fn_body, locals_mem).reads

C24_Witness ==
    /\ run.pc = "returned"
    /\ fn_body = Binary("LAnd", Local(1), Local(2))
    /\ ~locals_mem[1]
    /\ locals_mem[2]
    /\ run.trace = <<1>>
    /\ run.value = <<FALSE>>

\* C26: the jump emitted for a `continue` that targets a loop goes to the
\* header block registered for the loop, not to its exit block
C26_ContinueToHeader ==
    run.pc \in {"running", "returned"}
        => \A i \in 1..Len(blocks) : \A j \in 1..Len(blocks[i].insts) :
               LET inst == blocks[i].insts[j]
               IN (inst.op = "jump" /\ inst.stmt.k = "Continue")
                      => inst.block = continues[inst.stmt.label]

\* the statement being lowered is inside a comptime block, with no lambda
\* in between
InComptime == BodyStart > 0 /\ stack[BodyStart].kind = "comptime"

\* the blocks and loops opened inside the innermost comptime block
ComptimeScopes == ScopesOf(SubSeq(stack, BodyStart + 1, Len(stack)))

\* C25: a break, continue or return lowered inside a comptime block resolves
\* to a scope opened inside that comptime block, a return to the outermost
\* block of the comptime block
C25_ComptimeLabels ==
    (/\ last.op \in {"break", "continue", "return"}
     /\ last.label # NoId
     /\ InComptime)
        => /\ \E i \in 1..Len(ComptimeScopes) :
                  ComptimeScopes[i].id = last.label
           /\ last.op = "return" => last.label = ComptimeScopes[1].id

\* what a lambda activation saved of the context it was entered from
Saved(frame) == <<frame.old_params, frame.old_scopes, frame.old_labels>>

\* C27: lowering a nested lambda leaves the parameter map, the scope stack
\* and the label stack of the enclosing function as they were when the
\* lambda was entered, at any depth of nesting: what is saved on entry is the
\* context of the encloser, it is kept while the body is lowered, and it is
\* the context again once the lambda is left
C27_LambdaFrame ==
    [][/\ (Len(stack') = Len(stack) + 1 /\ stack'[Len(stack')].kind = "lambda")
           => Saved(stack'[Len(stack')]) = <<params, scopes, label_kinds>>
       /\ \A i \in 1..Len(stack) :
              (i <= Len(stack') /\ stack[i].kind = "lambda")
                  => Saved(stack'[i]) = Saved(stack[i])
       /\ (/\ Len(stack) > 0
           /\ Top.kind = "lambda"
           /\ Len(stack') = Len(stack) - 1)
           => <<params', scopes', label_kinds'>> = Saved(Top)]_vars

\* a lambda nested in the body block of a lambda with a parameter has been
\* lowered, and the encloser has its parameter, scope and label again
C27_Witness ==
    /\ last.op = "lambda_done"
    /\ \E i \in 1..Len(stack) : stack[i].kind = "lambda"
    /\ \E n \in Names : params[n] # NoId
    /\ Len(scopes) > 0
    /\ Len(label_kinds) > 0

\* ---- indexing and lowering the same root
\* C28: once a root is indexed and lowered, a name has an Index definition
\* if and only if it has a global body, and both come from the same
\* definition of the root
C28_IndexMatchesBodies ==
    (ndefs = Len(root_defs) /\ nlowered = Len(root_defs))
        => \A n \in Names :
              /\ n \in DOMAIN definitions <=> n \in DOMAIN global_bodies
              /\ n \in DOMAIN definitions
                    => definitions[n].ty = body_def[n]

\* ---- type ids
\* the number of entries of the kind of t that precede t in tys_to_compile
KindPosition(t) ==
    LET tys == meta_ty_data.tys_to_compile
        i == CHOOSE i \in 1..Len(tys) : tys[i] = t
    IN Cardinality({j \in 1..(i - 1) : tys[j].k = t.k})

\* the list index in the id of a complex type
ListIndex(id) == id % 2^26

\* C29: on one MetaTyData a type keeps the id to_type_id first gave it, in
\* later to_type_id and to_previous_type_id calls; tys_to_compile holds no
\* type twice; the list index of a complex type is its position among the
\* entries of its kind
C29_StableIds ==
    /\ (last.op \in {"to_type_id", "to_previous_type_id"}
           /\ last.ty \in DOMAIN type_ids)
          => last.id = type_ids[last.ty]
    /\ \A i, j \in 1..Len(meta_ty_data.tys_to_compile) :
          meta_ty_data.tys_to_compile[i] = meta_ty_data.tys_to_compile[j]
              => i = j
    /\ (last.op \in {"to_type_id", "to_previous_type_id"}
           /\ last.ty.k \in ComplexKinds)
          => ListIndex(last.id) = KindPosition(last.ty)
    /\ \A t \in DOMAIN type_ids :
          t.k \in ComplexKinds => ListIndex(type_ids[t]) = KindPosition(t)

\* the second pointer type of a MetaTyData that also holds other kinds is
\* asked for again and has the list index 1 it was given
C29_Witness ==
    /\ last.op = "to_previous_type_id"
    /\ last.ty = Pointer(TRUE, Bool)
    /\ last.ty \in DOMAIN type_ids
    /\ ListIndex(last.id) = 1
    /\ Len(meta_ty_data.tys_to_compile) > 3

\* C30: two different types never have the same type id
C30_InjectiveIds ==
    \A t1, t2 \in DOMAIN type_ids :
        type_ids[t1] = type_ids[t2] => t1 = t2

====
